---- MODULE Spec2Model ----
(***************************************************************************)
(* A model of the connection-and-command core of the redis-rust server:    *)
(* the shared store (db.rs), the pub/sub registry (db.rs) and the          *)
(* per-connection handler with its command dispatcher (client_handler.rs). *)
(*                                                                         *)
(* Conventions                                                             *)
(*  - A command frame is a sequence of strings (the RESP array of bulk     *)
(*    strings a client sends), e.g. <<"SET", "k", "a", "PX", "1">>.        *)
(*  - A reply is the sequence of tokens of its RESP encoding, e.g.         *)
(*    <<"$", "a">> for the bulk string a, <<"*", "2", "$", "q", "$", "a">> *)
(*    for the array [q, a]; lengths of bulk strings are left out.          *)
(*  - Each handler is a process with a position pc; an action is one       *)
(*    stretch of handler code between two suspension points (a lock        *)
(*    acquisition is taken and released inside one action).                *)
(***************************************************************************)
EXTENDS Integers, Sequences, FiniteSets, TLC

\* ---------------------------------------------------------------- inputs
Conns == {1, 2, 3}
Keys == {"k", "q"}
Vals == {"a", "b"}
Chans == {"news", "misc"}

\* bounds of the model
MaxClock == 3
MaxStepsKV == 1
MaxStepsList == 4
MaxStepsStream == 3
MaxStepsPubSub == 5
MaxStepsMode == 4
MaxStepsTx == 5
MaxStepsVariant == 3
MaxNumeral == 8

\* TimeDelta::seconds: milliseconds in one second
MsPerSec == 1000

\* ------------------------------------------------------- string helpers
\* str::to_ascii_uppercase / to_uppercase on the strings the model sends
UpperTable ==
    [s \in {"set", "get", "px", "ex", "exec", "multi", "subscribe"} |->
        CASE s = "set" -> "SET"
          [] s = "get" -> "GET"
          [] s = "px" -> "PX"
          [] s = "ex" -> "EX"
          [] s = "exec" -> "EXEC"
          [] s = "multi" -> "MULTI"
          [] s = "subscribe" -> "SUBSCRIBE"]

to_ascii_uppercase(s) ==
    IF s \in DOMAIN UpperTable THEN UpperTable[s] ELSE s

\* str::to_lowercase on the strings the model sends
LowerTable ==
    [s \in {"BLOCK", "STREAMS", "Block"} |->
        CASE s = "BLOCK" -> "block"
          [] s = "STREAMS" -> "streams"
          [] s = "Block" -> "block"]

to_lowercase(s) ==
    IF s \in DOMAIN LowerTable THEN LowerTable[s] ELSE s

\* usize::from_str_radix(s, 10) / str::parse::<f64> on the numerals the
\* model sends; a string outside the table does not parse (Err)
NumTable ==
    [s \in {"0", "1", "2", "3"} |->
        CASE s = "0" -> 0 [] s = "1" -> 1 [] s = "2" -> 2 [] s = "3" -> 3]

parses(s) ==
    s \in DOMAIN NumTable

from_str_radix(s) ==
    NumTable[s]

\* ------------------------------------------------------ RedisValue::encode
Simple(s) ==
    <<"+", s>>

Bulk(s) ==
    <<"$", s>>

ErrorV(toks) ==
    <<"-">> \o toks

IntV(n) ==
    <<":", ToString(n)>>

NullString ==
    <<"$-1">>

NullArray ==
    <<"*-1">>

RECURSIVE Flatten(_)
Flatten(ss) ==
    IF ss = <<>> THEN <<>> ELSE Head(ss) \o Flatten(Tail(ss))

\* Array(values).encode(): the header, then each element encoded
ArrayV(elems) ==
    <<"*", ToString(Len(elems))>> \o Flatten(elems)

ArityError(cmd) ==
    ErrorV(<<"Err wrong number of arguments for '", cmd, "' command">>)

SUBSCRIBE_MODE_COMMANDS ==
    {"SUBSCRIBE", "UNSUBSCRIBE", "PSUBSCRIBE", "PUNSUBSCRIBE", "PING", "QUIT"}

TRANSACTION_COMMANDS ==
    {"MULTI", "EXEC", "DISCARD"}

\* ------------------------------------------------------------------ state
VARIABLES
    db,             \* DB: key -> DbRecord (type "none": the key is absent)
    now,            \* the wall clock (Utc::now / SystemTime::now), in ms
    channels,       \* Registry.channels: channel -> set of connection ids
    subscriptions,  \* Registry.subscriptions: id -> [has, set] (has: key present)
    mailbox,        \* Registry.senders / ClientHandler.receiver: id -> queue
    conn,           \* ClientHandler per connection, with the handler's position
    chan,           \* the list waiters' channels, in order of creation
    schan,          \* the stream waiters' channels, in order of creation
    budget,         \* frames the clients may still send
    last,           \* history: what the latest step did and replied
    hist,           \* history: what the clients asked for, per key
    got,            \* history: the mailbox messages written to each client
    parser,         \* a RedisParser on its own, with the bytes it is sent
    peer            \* the connections whose client has closed its socket

vars == <<db, now, channels, subscriptions, mailbox, conn, chan, schan,
          budget, last, hist, got, parser, peer>>

\* DbRecord: String(StringRecord) | List(ListRecord) | Stream(StreamRecord).
\* limit = -1 models time_limit = None; waiters hold indices into chan
\* (lists) or schan (streams): the UnboundedSender ends.
NoRecord ==
    [type |-> "none", value |-> "", limit |-> -1, list |-> <<>>,
     waiters |-> <<>>, entries |-> <<>>]

\* StringRecord::new
StringRecord_new(value) ==
    [NoRecord EXCEPT !.type = "string", !.value = value]

\* StringRecord::new_with_limit
StringRecord_new_with_limit(value, limit) ==
    [NoRecord EXCEPT !.type = "string", !.value = value, !.limit = limit]

\* StringRecord::is_valid
is_valid_late(rec) ==
    ~(rec.limit # -1 /\ now > rec.limit)

is_valid(rec) ==
    ~(rec.limit # -1 /\ now >= rec.limit)

\* ListRecord::new / ListRecord::from_list
ListRecord_from_list(list) ==
    [NoRecord EXCEPT !.type = "list", !.list = list]

\* StreamRecord::new
StreamRecord_new ==
    [NoRecord EXCEPT !.type = "stream"]

\* ClientHandler::new, with the handler's position: pc, the frame in
\* progress (cur), the waiter it is suspended on (w, tmo), the locals of
\* exec_queued (inExec, execQ, outputs) and the locals of XREAD (xi: the
\* loop index i, xid: entry_id, xout: response_array, xdead:
\* reached_deadline)
ClientHandler_new ==
    [pc |-> "idle", subscribe_mode |-> FALSE, multi_mode |-> FALSE,
     queued_commands |-> <<>>, cur |-> <<>>, w |-> 0, tmo |-> 0,
     inExec |-> FALSE, execQ |-> <<>>, outputs |-> <<>>,
     xi |-> 0, xid |-> <<0, 0>>, xout |-> <<>>, xdead |-> FALSE]

\* the outcome of execute_command: the shared state and the connection's
\* flags after it, the reply, and how the call ends: "reply" (Ok(bytes)),
\* "block" (suspended on a waiter), "err" (Err: the handler returns) or
\* "panic" (an unwrap failed: the task dies)
Base(c) ==
    [db |-> db, channels |-> channels, subscriptions |-> subscriptions,
     mailbox |-> mailbox, chan |-> chan, schan |-> schan,
     sm |-> conn[c].subscribe_mode, mm |-> conn[c].multi_mode,
     reply |-> <<>>, fate |-> "reply", w |-> 0, tmo |-> 0]

Reply(c, r) ==
    [Base(c) EXCEPT !.reply = r]

Fail(c) ==
    [Base(c) EXCEPT !.fate = "err"]

Panic(c) ==
    [Base(c) EXCEPT !.fate = "panic"]

\* ------------------------------------------------------------- PING, ECHO
DoPing(c, args) ==
    IF conn[c].subscribe_mode
    THEN Reply(c, ArrayV(<<Bulk("pong"), Bulk("")>>))
    ELSE Reply(c, Simple("PONG"))

DoEcho(c, args) ==
    IF Len(args) # 2 THEN Reply(c, ArityError("ECHO"))
    ELSE Reply(c, Bulk(args[2]))

\* --------------------------------------------------------------- SET, GET
DoSet_wrongkey(c, args) ==
    IF Len(args) < 3 THEN Reply(c, ArityError("SET"))
    ELSE LET other == CHOOSE k \in Keys : k # args[2]
         IN  [Reply(c, Simple("OK")) EXCEPT
                 !.db = [db EXCEPT ![other] = StringRecord_new(args[3])]]

DoSet(c, args) ==
    IF Len(args) < 3 THEN Reply(c, ArityError("SET"))
    ELSE LET key == args[2]
             value == args[3]
             px == Len(args) > 4 /\ to_ascii_uppercase(args[4]) = "PX"
             ex == Len(args) > 4 /\ to_ascii_uppercase(args[4]) = "EX"
         IN  IF (px \/ ex) /\ ~parses(args[5]) THEN Fail(c)
             ELSE LET record ==
                          IF px
                          THEN StringRecord_new_with_limit(
                                   value, now + from_str_radix(args[5]))
                          ELSE IF ex
                          THEN StringRecord_new_with_limit(
                                   value, now + MsPerSec * from_str_radix(args[5]))
                          ELSE StringRecord_new(value)
                  IN  [Reply(c, Simple("OK")) EXCEPT
                          !.db = [db EXCEPT ![key] = record]]

DoGet(c, args) ==
    IF Len(args) # 2 THEN Reply(c, ArityError("GET"))
    ELSE LET record == db[args[2]]
         IN  IF record.type = "none" THEN Reply(c, NullString)
             ELSE IF record.type = "string" /\ is_valid(record)
                  THEN Reply(c, Bulk(record.value))
                  ELSE Reply(c, NullString)

\* ------------------------------------------------------------ ListRecord
\* a fresh unbounded_channel::<String>(): rx is the receiver end (FALSE once
\* dropped), buf the values sent and not yet received
NewChan(c) ==
    [rx |-> TRUE, buf |-> <<>>, owner |-> c]

\* UnboundedSender::send: fails (is_err) iff the receiver has been dropped
send_ok(ch, w) ==
    ch[w].rx

send(ch, w, value) ==
    IF send_ok(ch, w) THEN [ch EXCEPT ![w].buf = Append(@, value)] ELSE ch

\* the list's own push, at the front or at the back
list_push(list, value, front) ==
    IF front THEN <<value>> \o list ELSE Append(list, value)

\* the while loop of push_front / push_back: the latest send failed
RECURSIVE push_retry(_, _, _, _)
push_retry(rec, ch, value, front) ==
    IF rec.waiters = <<>>
    THEN [rec |-> [rec EXCEPT !.list = list_push(@, value, front)], chan |-> ch]
    ELSE LET waiter == Head(rec.waiters)
             popped == [rec EXCEPT !.waiters = Tail(@)]
         IN  IF send_ok(ch, waiter)
             THEN [rec |-> popped, chan |-> send(ch, waiter, value)]
             ELSE push_retry(popped, ch, value, front)

\* a push that hands the value to the newest waiter instead of the oldest
push_newest_first(rec, ch, value, front) ==
    IF rec.waiters # <<>>
    THEN LET n == Len(rec.waiters)
             waiter == rec.waiters[n]
             popped == [rec EXCEPT !.waiters = SubSeq(@, 1, n - 1)]
         IN  IF send_ok(ch, waiter)
             THEN [rec |-> popped, chan |-> send(ch, waiter, value)]
             ELSE push_retry(popped, ch, value, front)
    ELSE [rec |-> [rec EXCEPT !.list = list_push(@, value, front)], chan |-> ch]

\* ListRecord::push_front (front) / ListRecord::push_back (~front)
push(rec, ch, value, front) ==
    IF rec.waiters # <<>>
    THEN LET waiter == Head(rec.waiters)
             popped == [rec EXCEPT !.waiters = Tail(@)]
         IN  IF send_ok(ch, waiter)
             THEN [rec |-> popped, chan |-> send(ch, waiter, value)]
             ELSE push_retry(popped, ch, value, front)
    ELSE [rec |-> [rec EXCEPT !.list = list_push(@, value, front)], chan |-> ch]

\* for val in args.iter().skip(2) { list_record.push_xxx(val) }
RECURSIVE push_all(_, _, _, _)
push_all(rec, ch, values, front) ==
    IF values = <<>> THEN [rec |-> rec, chan |-> ch]
    ELSE LET one == push(rec, ch, Head(values), front)
         IN  push_all(one.rec, one.chan, Tail(values), front)

\* VecDeque::push_front / push_back of each value in turn, on a new deque
RECURSIVE deque_of(_, _, _)
deque_of(list, values, front) ==
    IF values = <<>> THEN list
    ELSE deque_of(list_push(list, Head(values), front), Tail(values), front)

\* RPUSH (~front) and LPUSH (front)
DoPush(c, args, front, name) ==
    IF Len(args) < 3 THEN Reply(c, ArityError(name))
    ELSE LET list_name == args[2]
             values == SubSeq(args, 3, Len(args))
             pushed_records == Len(args) - 2
             record == db[list_name]
         IN  IF record.type = "none"
             THEN [Reply(c, IntV(0 + pushed_records)) EXCEPT
                      !.db = [db EXCEPT ![list_name] =
                                 ListRecord_from_list(deque_of(<<>>, values, front))]]
             ELSE IF record.type = "list"
             THEN LET prev_records == Len(record.list)
                      done == push_all(record, chan, values, front)
                  IN  [Reply(c, IntV(prev_records + pushed_records)) EXCEPT
                          !.db = [db EXCEPT ![list_name] = done.rec],
                          !.chan = done.chan]
             ELSE Fail(c)

DoRpush(c, args) ==
    DoPush(c, args, FALSE, "RPUSH")

DoLpush(c, args) ==
    DoPush(c, args, TRUE, "LPUSH")

Min(a, b) ==
    IF a < b THEN a ELSE b

RECURSIVE BulkEach(_)
BulkEach(items) ==
    IF items = <<>> THEN <<>> ELSE <<Bulk(Head(items))>> \o BulkEach(Tail(items))

\* an LPOP that takes its elements from the back of the list
DoLpop_from_back(c, args) ==
    IF Len(args) < 2 \/ Len(args) > 3 THEN Reply(c, ArityError("LPOP"))
    ELSE IF Len(args) = 3 /\ ~parses(args[3]) THEN Fail(c)
    ELSE LET record == db[args[2]]
             pop_amount == IF Len(args) = 3 THEN from_str_radix(args[3]) ELSE 1
             n == IF record.type = "list" THEN Min(pop_amount, Len(record.list)) ELSE 0
             len == Len(record.list)
             returned_items == [i \in 1..n |-> record.list[len + 1 - i]]
             after == IF record.type = "list"
                      THEN [db EXCEPT ![args[2]].list = SubSeq(@, 1, len - n)]
                      ELSE db
         IN  IF pop_amount = 1
             THEN IF returned_items = <<>> THEN Panic(c)
                  ELSE [Reply(c, Bulk(returned_items[1])) EXCEPT !.db = after]
             ELSE [Reply(c, ArrayV(BulkEach(returned_items))) EXCEPT !.db = after]

\* LPOP: pop_front up to pop_amount times; with pop_amount = 1 the reply is
\* returned_items[0], an index out of bounds (a panic) when nothing was popped
DoLpop(c, args) ==
    IF Len(args) < 2 \/ Len(args) > 3 THEN Reply(c, ArityError("LPOP"))
    ELSE IF Len(args) = 3 /\ ~parses(args[3]) THEN Fail(c)
    ELSE LET list_name == args[2]
             pop_amount == IF Len(args) = 3 THEN from_str_radix(args[3]) ELSE 1
             record == db[list_name]
             n == IF record.type = "list" THEN Min(pop_amount, Len(record.list)) ELSE 0
             returned_items == SubSeq(record.list, 1, n)
             after == IF record.type = "list"
                      THEN [db EXCEPT ![list_name].list = SubSeq(@, n + 1, Len(@))]
                      ELSE db
         IN  IF pop_amount = 1
             THEN IF returned_items = <<>> THEN Panic(c)
                  ELSE [Reply(c, Bulk(returned_items[1])) EXCEPT !.db = after]
             ELSE [Reply(c, ArrayV(BulkEach(returned_items))) EXCEPT !.db = after]

\* a BLPOP that replies with the first element and leaves it in the list
DoBlpop_nopop(c, args) ==
    IF Len(args) # 3 THEN Reply(c, ArityError("BLPOP"))
    ELSE IF ~parses(args[3]) THEN Fail(c)
    ELSE LET list_name == args[2]
             record == IF db[list_name].type = "none"
                       THEN ListRecord_from_list(<<>>)
                       ELSE db[list_name]
         IN  IF record.type # "list" THEN Fail(c)
             ELSE IF record.list # <<>>
             THEN Reply(c, ArrayV(<<Bulk(list_name), Bulk(Head(record.list))>>))
             ELSE LET w == Len(chan) + 1
                  IN  [Base(c) EXCEPT
                          !.fate = "block", !.w = w, !.tmo = from_str_radix(args[3]),
                          !.chan = Append(chan, NewChan(c)),
                          !.db = [db EXCEPT ![list_name] =
                                     [record EXCEPT !.waiters = Append(@, w)]]]

\* BLPOP up to the end of its locked block: pop a value, or subscribe a
\* fresh waiter and suspend ("block") on its receiver
DoBlpop(c, args) ==
    IF Len(args) # 3 THEN Reply(c, ArityError("BLPOP"))
    ELSE IF ~parses(args[3]) THEN Fail(c)
    ELSE LET list_name == args[2]
             timeout == from_str_radix(args[3])
             record == IF db[list_name].type = "none"
                       THEN ListRecord_from_list(<<>>)
                       ELSE db[list_name]
         IN  IF record.type # "list" THEN Fail(c)
             ELSE IF record.list # <<>>
             THEN [Reply(c, ArrayV(<<Bulk(list_name), Bulk(Head(record.list))>>))
                      EXCEPT !.db = [db EXCEPT ![list_name] =
                                        [record EXCEPT !.list = Tail(@)]]]
             ELSE LET w == Len(chan) + 1
                  IN  [Base(c) EXCEPT
                          !.fate = "block", !.w = w, !.tmo = timeout,
                          !.chan = Append(chan, NewChan(c)),
                          !.db = [db EXCEPT ![list_name] =
                                     [record EXCEPT !.waiters = Append(@, w)]]]

\* ---------------------------------------------------------- StreamRecord
\* the id argument split at "-" (str::split), for the ids the model sends;
\* "*" is first rewritten to "*-*". A string outside the table does not
\* match the regex ^((\d+|\*)-(\d+|\*)|\*)$. The numeral
\* 9223372036854775808 is 2^63, one above the largest i64.
IdTable ==
    [s \in {"0-0", "0-1", "1-0", "1-1", "2-0", "0-*", "1-*", "2-*", "*",
            "9223372036854775808-0"} |->
        CASE s = "0-0" -> <<"0", "0">>
          [] s = "9223372036854775808-0" -> <<"9223372036854775808", "0">>
          [] s = "0-1" -> <<"0", "1">>
          [] s = "1-0" -> <<"1", "0">>
          [] s = "1-1" -> <<"1", "1">>
          [] s = "2-0" -> <<"2", "0">>
          [] s = "0-*" -> <<"0", "*">>
          [] s = "1-*" -> <<"1", "*">>
          [] s = "2-*" -> <<"2", "*">>
          [] s = "*" -> <<"*", "*">>]

\* i64::from_str_radix(s, 10).unwrap_or(-1): "*" and the numerals that
\* do not fit an i64 give -1
parse_or_minus1(s) ==
    IF parses(s) THEN from_str_radix(s) ELSE -1

\* format!("{}-{}", milliseconds, sequence)
IdStr(id) ==
    ToString(id[1]) \o "-" \o ToString(id[2])

\* whether the string of an id splits at "-" into two numerals again: with
\* a negative part ("-1-0", "5--1") a piece is empty and the unwrap of its
\* parse panics
splits_back(id) ==
    id[1] >= 0 /\ id[2] >= 0

\* the fields of an entry: HashMap::insert of each field/value pair in turn
RECURSIVE kv_of(_, _)
kv_of(kv, rest) ==
    IF Len(rest) < 2 THEN kv
    ELSE kv_of([f \in DOMAIN kv \cup {rest[1]} |->
                   IF f = rest[1] THEN rest[2] ELSE kv[f]],
               SubSeq(rest, 3, Len(rest)))

\* StreamEntry::new: id is the pair (ms, seq) of the string "ms-seq"
StreamEntry_new(id, kv) ==
    [id |-> id, kv |-> kv]

\* StreamRecord::peek_last
peek_last(rec) ==
    IF rec.entries = <<>> THEN <<0, 0>> ELSE rec.entries[Len(rec.entries)].id

\* a fresh unbounded_channel::<StreamEntry>()
NewSChan(c) ==
    [rx |-> TRUE, buf |-> <<>>, owner |-> c]

\* the first loop of StreamRecord::push: send the entry to every waiter
RECURSIVE send_each(_, _, _)
send_each(ch, waiters, entry) ==
    IF waiters = <<>> THEN ch
    ELSE send_each(send(ch, Head(waiters), entry), Tail(waiters), entry)

\* VecDeque::remove(index), index counted from 0; None when out of range
vec_remove(q, index) ==
    IF index + 1 \in 1..Len(q)
    THEN SubSeq(q, 1, index) \o SubSeq(q, index + 2, Len(q))
    ELSE q

\* the second loop of StreamRecord::push: for rem in to_remove { remove(rem) }
RECURSIVE remove_each(_, _)
remove_each(q, to_remove) ==
    IF to_remove = <<>> THEN q
    ELSE remove_each(vec_remove(q, Head(to_remove)), Tail(to_remove))

\* the indices (from 0) of the waiters whose send failed, ascending
RECURSIVE failed_sends(_, _, _)
failed_sends(ch, waiters, i) ==
    IF i >= Len(waiters) THEN <<>>
    ELSE (IF send_ok(ch, waiters[i + 1]) THEN <<>> ELSE <<i>>)
         \o failed_sends(ch, waiters, i + 1)

\* StreamRecord::push
stream_push(rec, ch, entry) ==
    [rec |-> [rec EXCEPT
                 !.waiters = remove_each(@, failed_sends(ch, rec.waiters, 0)),
                 !.entries = Append(@, entry)],
     schan |-> send_each(ch, rec.waiters, entry)]

TopItemError ==
    ErrorV(<<"ERR The ID specified in XADD is equal or smaller than the target stream top item">>)

ZeroIdError ==
    ErrorV(<<"ERR The ID specified in XADD must be greater than 0-0">>)

\* the comparison of XADD that rejects an id: not above the last id
id_rejected_le(last_milli, last_seq, milliseconds, sequence) ==
    last_milli > milliseconds
        \/ (last_milli = milliseconds /\ last_seq > sequence)

id_rejected(last_milli, last_seq, milliseconds, sequence) ==
    last_milli > milliseconds
        \/ (last_milli = milliseconds /\ last_seq >= sequence)

\* the sequence number XADD gives "ms-*" on an existing stream
auto_sequence_zero(last_milli, last_seq, milliseconds) ==
    0

auto_sequence(last_milli, last_seq, milliseconds) ==
    IF last_milli = milliseconds THEN last_seq + 1 ELSE 0

\* XADD
DoXadd(c, args) ==
    IF Len(args) < 5 \/ Len(args) % 2 # 1 THEN Reply(c, ArityError("XADD"))
    ELSE IF args[3] \notin DOMAIN IdTable THEN Fail(c)
    ELSE LET stream_name == args[2]
             entry_id == IF args[3] = "*" THEN "*-*" ELSE args[3]
             milliseconds_str == IdTable[args[3]][1]
             sequence_str == IdTable[args[3]][2]
             milliseconds0 == parse_or_minus1(milliseconds_str)
             sequence0 == parse_or_minus1(sequence_str)
             values == kv_of(<<>>, SubSeq(args, 4, Len(args)))
             record == db[stream_name]
             milliseconds == IF milliseconds_str = "*" THEN now ELSE milliseconds0
         IN  IF milliseconds0 = 0 /\ sequence0 = 0 THEN Reply(c, ZeroIdError)
             ELSE IF record.type = "stream" /\ ~splits_back(peek_last(record))
             THEN Panic(c)
             ELSE IF record.type = "stream"
             THEN LET last_id == peek_last(record)
                      last_milli == last_id[1]
                      last_seq == last_id[2]
                      sequence == IF sequence_str = "*"
                                  THEN auto_sequence(last_milli, last_seq, milliseconds)
                                  ELSE sequence0
                      stream_entry == StreamEntry_new(<<milliseconds, sequence>>, values)
                      pushed == stream_push(record, schan, stream_entry)
                  IN  IF id_rejected(last_milli, last_seq, milliseconds, sequence)
                      THEN Reply(c, TopItemError)
                      ELSE [Reply(c, Bulk(IdStr(<<milliseconds, sequence>>)))
                               EXCEPT !.db = [db EXCEPT ![stream_name] = pushed.rec],
                                      !.schan = pushed.schan]
             ELSE IF record.type = "none"
             THEN LET sequence == IF sequence_str = "*"
                                  THEN (IF milliseconds = 0 THEN 1 ELSE 0)
                                  ELSE sequence0
                      stream_entry == StreamEntry_new(<<milliseconds, sequence>>, values)
                      pushed == stream_push(StreamRecord_new, schan, stream_entry)
                  IN  [Reply(c, Bulk(IdStr(<<milliseconds, sequence>>)))
                          EXCEPT !.db = [db EXCEPT ![stream_name] = pushed.rec],
                                 !.schan = pushed.schan]
             ELSE Reply(c, Bulk(entry_id))

\* ------------------------------------------------------------------ XREAD
\* block_args: 2 for XREAD BLOCK ms ..., 0 for XREAD STREAMS ...
block_args(args) ==
    IF to_lowercase(args[2]) = "block" THEN 2 ELSE 0

is_blocked(args) ==
    to_lowercase(args[2]) = "block"

\* the number of turns of the loop over the streams
stream_count(args) ==
    (Len(args) - block_args(args) - 2) \div 2

\* args[2+i+block_args] and args[(len - block_args) / 2 + 1 + i + block_args],
\* the indices counted from 0 as in the code
stream_name_at(args, i) ==
    args[2 + i + block_args(args) + 1]

entry_id_at(args, i) ==
    args[(Len(args) - block_args(args)) \div 2 + 1 + i + block_args(args) + 1]

\* the ids XREAD is sent that match ^\d+-\d+$, parsed (usize)
ReadIdTable ==
    [s \in {"0-0", "0-1", "1-0"} |->
        CASE s = "0-0" -> <<0, 0>>
          [] s = "0-1" -> <<0, 1>>
          [] s = "1-0" -> <<1, 0>>]

\* entry_millis > entry_milliseconds
\*     || entry_millis == entry_milliseconds && entry_seq > entry_sequence
id_above(id, bound) ==
    id[1] > bound[1] \/ (id[1] = bound[1] /\ id[2] > bound[2])

\* for (k, v) in entry: the fields in the HashMap's iteration order (the
\* entries the model adds have one field)
RECURSIVE values_array(_, _)
values_array(kv, fields) ==
    IF fields = {} THEN <<>>
    ELSE LET f == CHOOSE g \in fields : TRUE
         IN  <<Bulk(f), Bulk(kv[f])>> \o values_array(kv, fields \ {f})

\* [id, [field, value, ...]]
entry_array(entry) ==
    ArrayV(<<Bulk(IdStr(entry.id)),
             ArrayV(values_array(entry.kv, DOMAIN entry.kv))>>)

\* the entries of a stream above the bound, each as its array
RECURSIVE entries_above(_, _)
entries_above(entries, bound) ==
    IF entries = <<>> THEN <<>>
    ELSE (IF id_above(Head(entries).id, bound)
          THEN <<entry_array(Head(entries))>> ELSE <<>>)
         \o entries_above(Tail(entries), bound)

\* [stream_name, entries_array]
stream_array(stream_name, entries_array) ==
    ArrayV(<<Bulk(stream_name), ArrayV(entries_array)>>)

\* XREAD before its loop: the arity and the BLOCK / STREAMS word; with
\* streams to read the call goes on in the loop ("xread")
DoXread(c, args) ==
    IF Len(args) < 4
    THEN Reply(c, ErrorV(<<"Err wrong number of arguments for 'XRANGE' command">>))
    ELSE IF to_lowercase(args[2]) = "block" /\ ~parses(args[3]) THEN Fail(c)
    ELSE IF to_lowercase(args[2]) \notin {"block", "streams"} THEN Fail(c)
    ELSE IF stream_count(args) = 0 THEN Reply(c, ArrayV(<<>>))
    ELSE [Base(c) EXCEPT !.fate = "xread"]

\* i64::from_str_radix(s, 10) on the values the model stores: the numerals up
\* to MaxNumeral, of either sign; a string outside the table does not parse, except I64Max,
\* which INCR treats apart
IntTable ==
    [s \in {ToString(n) : n \in -MaxNumeral..MaxNumeral} |->
        CHOOSE n \in -MaxNumeral..MaxNumeral : ToString(n) = s]

\* i64::MAX and i64::MIN as they are written
I64Max == "9223372036854775807"

I64Min == "-9223372036854775808"

\* --------------------------------------------------- LLEN, LRANGE, XRANGE
\* usize::MAX, which the model's integers cannot hold: it stands above every
\* index and id part the model forms
usize_MAX == 2147483647

\* n as usize, for the i64 values the model casts (-MaxNumeral..MaxNumeral)
as_usize(n) ==
    IF n < 0 THEN usize_MAX + (1 + n) ELSE n

Max(a, b) ==
    IF a > b THEN a ELSE b

\* LLEN: the length of the list at the key, 0 for any other record
DoLlen(c, args) ==
    IF Len(args) # 2 THEN Reply(c, ArityError("LLEN"))
    ELSE Reply(c, IntV(IF db[args[2]].type = "list"
                       THEN Len(db[args[2]].list) ELSE 0))

\* LRANGE with a negative start that is not cut at 0
DoLrange_noclamp(c, args) ==
    IF Len(args) # 4 THEN Reply(c, ArityError("LRANGE"))
    ELSE IF args[3] \notin DOMAIN IntTable \/ args[4] \notin DOMAIN IntTable
    THEN Fail(c)
    ELSE LET list_name == args[2]
             list == IF db[list_name].type = "list" THEN db[list_name].list
                     ELSE <<>>
             list_len == Len(list)
             start0 == IntTable[args[3]]
             stop0 == IntTable[args[4]]
             start == as_usize(IF start0 < 0 THEN list_len + start0
                               ELSE start0)
             stop == as_usize(Min(IF stop0 < 0 THEN Max(list_len + stop0, 0)
                                  ELSE stop0,
                                  list_len - 1))
             return_list == IF start < list_len /\ start <= stop
                            THEN BulkEach(SubSeq(list, start + 1, stop + 1))
                            ELSE <<>>
         IN  Reply(c, ArrayV(return_list))

\* LRANGE: both indices parse as i64 or the handler returns Err; negative
\* indices count from the end, stop is cut at the last element
DoLrange(c, args) ==
    IF Len(args) # 4 THEN Reply(c, ArityError("LRANGE"))
    ELSE IF args[3] \notin DOMAIN IntTable \/ args[4] \notin DOMAIN IntTable
    THEN Fail(c)
    ELSE LET list_name == args[2]
             list == IF db[list_name].type = "list" THEN db[list_name].list
                     ELSE <<>>
             list_len == Len(list)
             start0 == IntTable[args[3]]
             stop0 == IntTable[args[4]]
             start == as_usize(IF start0 < 0 THEN Max(list_len + start0, 0)
                               ELSE start0)
             stop == as_usize(Min(IF stop0 < 0 THEN Max(list_len + stop0, 0)
                                  ELSE stop0,
                                  list_len - 1))
             return_list == IF start < list_len /\ start <= stop
                            THEN BulkEach(SubSeq(list, start + 1, stop + 1))
                            ELSE <<>>
         IN  Reply(c, ArrayV(return_list))

\* the range ends XRANGE is sent that match ^\d+(-\d+)?$ once "-" is
\* rewritten to "0" and "+" to usize::MAX, split at "-"
RangeIdTable ==
    [s \in {"-", "+", "0", "1", "2", "0-1", "1-0", "1-1"} |->
        CASE s = "-" -> <<0>>
          [] s = "+" -> <<usize_MAX>>
          [] s = "0" -> <<0>>
          [] s = "1" -> <<1>>
          [] s = "2" -> <<2>>
          [] s = "0-1" -> <<0, 1>>
          [] s = "1-0" -> <<1, 0>>
          [] s = "1-1" -> <<1, 1>>]

\* the loop of XRANGE over the entries: below the lower end an entry is
\* skipped, above the higher end the loop breaks; an id that does not split
\* into two numerals panics at its unwrap
RECURSIVE xrange_loop(_, _, _, _)
xrange_loop(entries, lower, higher, out) ==
    IF entries = <<>> THEN [panic |-> FALSE, out |-> out]
    ELSE LET id == Head(entries).id
         IN  IF ~splits_back(id) THEN [panic |-> TRUE, out |-> out]
             ELSE IF id[1] < lower[1] \/ (id[1] = lower[1] /\ id[2] < lower[2])
             THEN xrange_loop(Tail(entries), lower, higher, out)
             ELSE IF id[1] > higher[1]
                      \/ (id[1] = higher[1] /\ id[2] > higher[2])
             THEN [panic |-> FALSE, out |-> out]
             ELSE xrange_loop(Tail(entries), lower, higher,
                              Append(out, entry_array(Head(entries))))

\* XRANGE: a range end outside the regex makes the handler return Err
DoXrange(c, args) ==
    IF Len(args) # 4 THEN Reply(c, ArityError("XRANGE"))
    ELSE IF args[3] \notin DOMAIN RangeIdTable \/ args[4] \notin DOMAIN RangeIdTable
    THEN Fail(c)
    ELSE LET stream_name == args[2]
             lower_end == RangeIdTable[args[3]]
             higher_end == RangeIdTable[args[4]]
             lower == IF Len(lower_end) = 2 THEN lower_end
                      ELSE <<lower_end[1], 0>>
             higher == IF Len(higher_end) = 2 THEN higher_end
                       ELSE <<higher_end[1], usize_MAX>>
             scan == IF db[stream_name].type = "stream"
                     THEN xrange_loop(db[stream_name].entries, lower, higher, <<>>)
                     ELSE [panic |-> FALSE, out |-> <<>>]
         IN  IF scan.panic THEN Panic(c) ELSE Reply(c, ArrayV(scan.out))

\* ------------------------------------------------------ pub/sub registry
\* whether a connection's handler (and so its mailbox receiver) is alive
Alive(c) ==
    conn[c].pc \notin {"closed", "panicked"}

\* SUBSCRIBE that registers the channel on the connection's side only
DoSubscribe_oneside(c, args) ==
    IF Len(args) # 2 THEN Reply(c, ArityError("SUBSCRIBE"))
    ELSE LET channel == args[2]
             subs == [has |-> TRUE, set |-> subscriptions[c].set \cup {channel}]
         IN  [Reply(c, ArrayV(<<Bulk("subscribe"), Bulk(channel),
                                IntV(Cardinality(subs.set))>>))
                 EXCEPT !.subscriptions = [subscriptions EXCEPT ![c] = subs],
                        !.sm = TRUE]

\* SUBSCRIBE
DoSubscribe(c, args) ==
    IF Len(args) # 2 THEN Reply(c, ArityError("SUBSCRIBE"))
    ELSE LET channel == args[2]
             subs == [has |-> TRUE, set |-> subscriptions[c].set \cup {channel}]
             current_subscriptions == Cardinality(subs.set)
         IN  [Reply(c, ArrayV(<<Bulk("subscribe"), Bulk(channel),
                                IntV(current_subscriptions)>>))
                 EXCEPT !.channels = [channels EXCEPT ![channel] = @ \cup {c}],
                        !.subscriptions = [subscriptions EXCEPT ![c] = subs],
                        !.sm = TRUE]

\* an UNSUBSCRIBE that leaves subscribe_mode as it was
DoUnsubscribe_keepmode(c, args) ==
    IF Len(args) # 2 THEN Reply(c, ArityError("UNSUBSCRIBE"))
    ELSE LET channel == args[2]
             subs == [subscriptions[c] EXCEPT !.set = @ \ {channel}]
             current_subscriptions == Cardinality(subs.set)
             removed == [Base(c) EXCEPT
                            !.channels = [channels EXCEPT ![channel] = @ \ {c}],
                            !.subscriptions = [subscriptions EXCEPT ![c] = subs]]
         IN  IF ~subscriptions[c].has THEN [removed EXCEPT !.fate = "panic"]
             ELSE [removed EXCEPT
                      !.reply = ArrayV(<<Bulk("unsubscribe"), Bulk(channel),
                                         IntV(current_subscriptions)>>)]

\* UNSUBSCRIBE: the unwrap of subscriptions.get(&self.id) panics when the
\* connection has never subscribed
DoUnsubscribe(c, args) ==
    IF Len(args) # 2 THEN Reply(c, ArityError("UNSUBSCRIBE"))
    ELSE LET channel == args[2]
             subs == [subscriptions[c] EXCEPT !.set = @ \ {channel}]
             current_subscriptions == Cardinality(subs.set)
             removed == [Base(c) EXCEPT
                            !.channels = [channels EXCEPT ![channel] = @ \ {c}],
                            !.subscriptions = [subscriptions EXCEPT ![c] = subs]]
         IN  IF ~subscriptions[c].has THEN [removed EXCEPT !.fate = "panic"]
             ELSE [removed EXCEPT
                      !.reply = ArrayV(<<Bulk("unsubscribe"), Bulk(channel),
                                         IntV(current_subscriptions)>>),
                      !.sm = IF current_subscriptions = 0 THEN FALSE ELSE @]

MessageV(channel, message_string) ==
    ArrayV(<<Bulk("message"), Bulk(channel), Bulk(message_string)>>)

\* the loop of PUBLISH over the subscribers in the order ord (the HashSet's
\* iteration order): send to each, and return Err at the first failed send
RECURSIVE publish_loop(_, _, _)
publish_loop(mb, ord, msg) ==
    IF ord = <<>> THEN [mailbox |-> mb, ok |-> TRUE]
    ELSE IF ~Alive(Head(ord)) THEN [mailbox |-> mb, ok |-> FALSE]
    ELSE publish_loop([mb EXCEPT ![Head(ord)] = Append(@, msg)], Tail(ord), msg)

\* the subscribers of a channel in the iteration order ord of all ids
RECURSIVE Restrict(_, _)
Restrict(ord, set) ==
    IF ord = <<>> THEN <<>>
    ELSE (IF Head(ord) \in set THEN <<Head(ord)>> ELSE <<>>)
         \o Restrict(Tail(ord), set)

\* PUBLISH that also counts and reaches the publisher itself
DoPublish_self(c, args, ord) ==
    IF Len(args) # 3 THEN Reply(c, ArityError("PUBLISH"))
    ELSE LET current_subscribers == channels[args[2]] \cup {c}
             sent == publish_loop(mailbox, Restrict(ord, current_subscribers),
                                  MessageV(args[2], args[3]))
         IN  [Reply(c, IntV(Cardinality(current_subscribers)))
                 EXCEPT !.mailbox = sent.mailbox]

\* PUBLISH
DoPublish(c, args, ord) ==
    IF Len(args) # 3 THEN Reply(c, ArityError("PUBLISH"))
    ELSE LET channel == args[2]
             message_string == args[3]
             current_subscribers == channels[channel]
             sent == publish_loop(mailbox, Restrict(ord, current_subscribers),
                                  MessageV(channel, message_string))
         IN  IF sent.ok
             THEN [Reply(c, IntV(Cardinality(current_subscribers)))
                      EXCEPT !.mailbox = sent.mailbox]
             ELSE [Fail(c) EXCEPT !.mailbox = sent.mailbox]

\* ------------------------------------------------------------- TYPE, INCR
\* DbRecord::get_type of the record at the key, whatever its expiry
DoType(c, args) ==
    IF Len(args) # 2 THEN Reply(c, ArityError("TYPE"))
    ELSE Reply(c, Simple(db[args[2]].type))

\* StringRecord::set_value: the value is replaced, the expiry kept
StringRecord_set_value(rec, value) ==
    [rec EXCEPT !.value = value]

NotIntegerError ==
    ErrorV(<<"ERR value is not an integer or out of range">>)

\* INCR: on a record that is not a string new_value stays 0 and no error is
\* set. number + 1 on i64::MAX overflows: the build with overflow checks
\* panics there, the build without them wraps to i64::MIN (fate "overflow"
\* carries the wrapped outcome, Apply chooses between the two)
DoIncr(c, args) ==
    IF Len(args) # 2 THEN Reply(c, ArityError("INCR"))
    ELSE LET key == args[2]
             value == db[key]
         IN  IF value.type = "none"
             THEN [Reply(c, IntV(1)) EXCEPT
                      !.db = [db EXCEPT ![key] = StringRecord_new("1")]]
             ELSE IF value.type = "string"
             THEN IF value.value = I64Max
                  THEN [Reply(c, <<":", I64Min>>) EXCEPT
                           !.db = [db EXCEPT ![key] =
                                      StringRecord_set_value(value, I64Min)],
                           !.fate = "overflow"]
                  ELSE IF value.value \in DOMAIN IntTable
                  THEN LET new_value == IntTable[value.value] + 1
                       IN  [Reply(c, IntV(new_value)) EXCEPT
                               !.db = [db EXCEPT ![key] =
                                          StringRecord_set_value(
                                              value, ToString(new_value))]]
                  ELSE Reply(c, NotIntegerError)
             ELSE Reply(c, IntV(0))

\* MULTI
DoMulti(c, args) ==
    IF Len(args) # 1 THEN Reply(c, ArityError("MULTI"))
    ELSE [Reply(c, Simple("OK")) EXCEPT !.mm = TRUE]

UnknownCommand(command) ==
    ErrorV(<<"Err unknown command '", command, "'">>)

\* ClientHandler::execute_command: the match on the command name, up to
\* the first point where the command suspends
execute_command(c, command, args, ord) ==
    CASE command = "PING" -> DoPing(c, args)
      [] command = "ECHO" -> DoEcho(c, args)
      [] command = "SET" -> DoSet(c, args)
      [] command = "GET" -> DoGet(c, args)
      [] command = "SUBSCRIBE" -> DoSubscribe(c, args)
      [] command = "PUBLISH" -> DoPublish(c, args, ord)
      [] command = "UNSUBSCRIBE" -> DoUnsubscribe(c, args)
      [] command = "RPUSH" -> DoRpush(c, args)
      [] command = "LPUSH" -> DoLpush(c, args)
      [] command = "LRANGE" -> DoLrange(c, args)
      [] command = "LLEN" -> DoLlen(c, args)
      [] command = "LPOP" -> DoLpop(c, args)
      [] command = "BLPOP" -> DoBlpop(c, args)
      [] command = "TYPE" -> DoType(c, args)
      [] command = "XADD" -> DoXadd(c, args)
      [] command = "XRANGE" -> DoXrange(c, args)
      [] command = "XREAD" -> DoXread(c, args)
      [] command = "INCR" -> DoIncr(c, args)
      [] command = "MULTI" -> DoMulti(c, args)
      [] OTHER -> Reply(c, UnknownCommand(command))

\* ---------------------------------------------------------------- history
\* The history variables record what the clients asked for and were
\* answered; they are computed from the frames and the replies, never from
\* the store.
WriteCommands ==
    {"RPUSH", "LPUSH", "LPOP", "BLPOP", "XADD", "XREAD", "INCR"}

ListCommands ==
    {"RPUSH", "LPUSH", "LPOP"}

Reverse(q) ==
    [i \in 1..Len(q) |-> q[Len(q) + 1 - i]]

\* the reference deque: RPUSH appends its arguments in order, LPUSH leaves
\* them at the front in reverse order, LPOP drops min(count, len) elements
RefDeque(dq, command, args) ==
    CASE command = "RPUSH" /\ Len(args) >= 3 -> dq \o SubSeq(args, 3, Len(args))
      [] command = "LPUSH" /\ Len(args) >= 3 ->
             Reverse(SubSeq(args, 3, Len(args))) \o dq
      [] command = "LPOP" /\ Len(args) = 2 -> SubSeq(dq, 2, Len(dq))
      [] command = "LPOP" /\ Len(args) = 3 /\ parses(args[3]) ->
             SubSeq(dq, Min(from_str_radix(args[3]), Len(dq)) + 1, Len(dq))
      [] OTHER -> dq

\* what the reference deque yields for an LPOP
RefPopped(dq, args) ==
    IF Len(args) = 2 THEN SubSeq(dq, 1, Min(1, Len(dq)))
    ELSE IF Len(args) = 3 /\ parses(args[3])
    THEN SubSeq(dq, 1, Min(from_str_radix(args[3]), Len(dq)))
    ELSE <<>>

\* the expiry instant a SET frame asks for (-1: none)
RefExpiry(args) ==
    IF Len(args) > 4 /\ to_ascii_uppercase(args[4]) = "PX" /\ parses(args[5])
    THEN now + from_str_radix(args[5])
    ELSE IF Len(args) > 4 /\ to_ascii_uppercase(args[4]) = "EX" /\ parses(args[5])
    THEN now + MsPerSec * from_str_radix(args[5])
    ELSE -1

\* the bulk strings a reply carries after its first n tokens
RECURSIVE BulksOf(_)
BulksOf(reply) ==
    IF Len(reply) < 2 THEN <<>>
    ELSE IF reply[1] = "$" THEN <<reply[2]>> \o BulksOf(SubSeq(reply, 3, Len(reply)))
    ELSE BulksOf(Tail(reply))

\* the values an LPOP or BLPOP reply hands to its client
ValuesOf(command, reply) ==
    IF reply = <<>> \/ reply[1] = "-" THEN <<>>
    ELSE IF command = "BLPOP" THEN BulksOf(SubSeq(reply, 5, Len(reply)))
    ELSE BulksOf(reply)

\* the number of occurrences of v in the sequence q
RECURSIVE Count(_, _)
Count(q, v) ==
    IF q = <<>> THEN 0
    ELSE (IF Head(q) = v THEN 1 ELSE 0) + Count(Tail(q), v)

\* hist after `command args` was executed with outcome fate / reply; a
\* BLPOP that was suspended ends with fate "wake" or "timeout"
HistAfter(command, args, fate, reply) ==
    [k \in Keys |->
        IF k \notin {args[i] : i \in 2..Len(args)} THEN hist[k]
        ELSE IF command = "SET" /\ Len(args) >= 3 /\ args[2] = k
        THEN IF fate = "reply" /\ reply = Simple("OK")
             THEN [hist[k] EXCEPT !.kind = "set", !.v = args[3],
                                  !.exp = RefExpiry(args), !.pure = FALSE]
             ELSE [hist[k] EXCEPT !.kind = "other", !.pure = FALSE]
        ELSE IF command \in ListCommands /\ Len(args) >= 2 /\ args[2] = k
        THEN [hist[k] EXCEPT
                 !.kind = "other",
                 !.dq = RefDeque(@, command, args),
                 !.pushed = IF command # "LPOP" /\ fate = "reply" /\ reply[1] = ":"
                            THEN @ \o SubSeq(args, 3, Len(args)) ELSE @,
                 !.popped = IF command = "LPOP" THEN @ \o ValuesOf(command, reply)
                            ELSE @,
                 !.ref = IF command = "LPOP" THEN @ \o RefPopped(hist[k].dq, args)
                         ELSE @]
        ELSE IF command = "BLPOP" /\ Len(args) >= 2 /\ args[2] = k
        THEN [hist[k] EXCEPT
                 !.kind = "other", !.pure = FALSE,
                 !.popped = @ \o ValuesOf(command, reply),
                 !.begun = IF fate = "block" \/ (fate = "reply" /\ reply[1] = "*")
                           THEN @ + 1 ELSE @,
                 !.replied = IF fate \in {"wake", "timeout"}
                                 \/ (fate = "reply" /\ reply[1] = "*")
                             THEN @ + 1 ELSE @]
        ELSE IF command \in WriteCommands
        THEN [hist[k] EXCEPT !.kind = "other", !.pure = FALSE]
        ELSE hist[k]]

Event(c, command, args, how, fate, reply) ==
    [ev |-> "cmd", c |-> c, command |-> command, args |-> args, how |-> how,
     fate |-> fate, reply |-> reply]

NoLast ==
    [ev |-> "none", c |-> 0, command |-> "", args |-> <<>>, how |-> "",
     fate |-> "", reply |-> <<>>]

NoHist ==
    [k \in Keys |-> [kind |-> "none", v |-> "", exp |-> -1, dq |-> <<>>,
                     pure |-> TRUE, pushed |-> <<>>, popped |-> <<>>,
                     ref |-> <<>>, begun |-> 0, replied |-> 0]]

\* ---------------------------------------------------------------- the locks
\* the commands whose arm, past its arity check, awaits self.db.read() or
\* self.db.write(), and those whose arm awaits self.ps_registry.read() or
\* write()
StoreCommands ==
    {"SET", "GET", "RPUSH", "LPUSH", "LRANGE", "LLEN", "LPOP", "BLPOP", "TYPE",
     "XADD", "XRANGE", "INCR"}

RegistryCommands ==
    {"SUBSCRIBE", "PUBLISH", "UNSUBSCRIBE"}

\* a variant in which the write guard of BLPOP is still in scope when the
\* handler awaits its receiver
guards_held_blpop(pc) ==
    IF pc = "blpop" THEN {"store"} ELSE {}

\* the lock guards in scope at each point where a handler is suspended:
\* every guard is a local of a block that ends before the next await of a
\* mailbox, a timer or the socket
guards_held(pc) ==
    CASE pc = "idle" -> {}
      [] pc = "exec" -> {}
      [] pc = "blpop" -> {}
      [] pc = "xread" -> {}
      [] pc = "xread_scan" -> {}
      [] pc = "xread_sub" -> {}
      [] pc = "xread_wait" -> {}
      [] OTHER -> {}

\* RwLock: a handler is granted the lock when no other handler's guard of
\* it is in scope (a write excludes all, and a queued write holds back
\* later reads)
lock_free(c, lock) ==
    \A d \in Conns \ {c} : lock \notin guards_held(conn[d].pc)

\* ------------------------------------------------------------ the handler
\* Ok(response) of the command in progress: inside exec_queued it is pushed
\* on outputs, otherwise parser.send writes it to the client
Complete(c, me, response) ==
    IF me.inExec
    THEN conn' = [conn EXCEPT ![c] = [me EXCEPT !.pc = "exec",
                                         !.outputs = Append(@, response)]]
    ELSE conn' = [conn EXCEPT ![c] = [me EXCEPT !.pc = "idle"]]

\* the state after execute_command returned (or suspended) with outcome r;
\* an arithmetic overflow ends as the build decides: the wrapped outcome, or
\* a panic that leaves the store as it was
Apply(c, command, args, me, r, how) ==
    \E o \in (IF r.fate = "overflow"
              THEN {[r EXCEPT !.fate = "reply"], Panic(c)}
              ELSE {r}) :
        /\ command \in StoreCommands => lock_free(c, "store")
        /\ command \in RegistryCommands => lock_free(c, "registry")
        /\ db' = o.db
        /\ channels' = o.channels
        /\ subscriptions' = o.subscriptions
        /\ mailbox' = o.mailbox
        /\ chan' = o.chan
        /\ schan' = o.schan
        /\ LET flagged == [me EXCEPT !.subscribe_mode = o.sm,
                                     !.multi_mode = o.mm]
           IN  CASE o.fate = "reply" -> Complete(c, flagged, o.reply)
                 [] o.fate = "block" ->
                        conn' = [conn EXCEPT ![c] =
                                    [flagged EXCEPT !.pc = "blpop", !.w = o.w,
                                                    !.tmo = o.tmo, !.cur = args]]
                 [] o.fate = "xread" ->
                        conn' = [conn EXCEPT ![c] =
                                    [flagged EXCEPT !.pc = "xread", !.cur = args,
                                                    !.xi = 0, !.xout = <<>>,
                                                    !.xdead = FALSE]]
                 [] o.fate = "err" ->
                        conn' = [conn EXCEPT ![c] =
                                    [flagged EXCEPT !.pc = "closed"]]
                 [] o.fate = "panic" ->
                        conn' = [conn EXCEPT ![c] =
                                    [flagged EXCEPT !.pc = "panicked"]]
        /\ last' = Event(c, command, args, how, o.fate,
                         IF o.fate = "reply" THEN o.reply ELSE <<>>)
        /\ hist' = HistAfter(command, args, o.fate,
                             IF o.fate = "reply" THEN o.reply ELSE <<>>)

\* self.queued_commands.push(args), with a variant that drops the frame
queued_after_drop(queued_commands, args) ==
    queued_commands

queued_after(queued_commands, args) ==
    Append(queued_commands, args)

SubscribedModeError(command) ==
    ErrorV(<<"ERR Can't execute '", command, "' in subscribed mode">>)

\* handle_client_async, the read_value branch of the select, with
\* handle_commands and the start of exec_queued: the frame args arrives
Frame(c, args, ord) ==
    /\ conn[c].pc = "idle"
    /\ UNCHANGED <<now, got, parser, peer>>
    /\ LET command == to_ascii_uppercase(args[1])
           me == conn[c]
       IN  IF me.subscribe_mode /\ command \notin SUBSCRIBE_MODE_COMMANDS
           THEN /\ last' = Event(c, command, args, "rejected", "reply",
                                 SubscribedModeError(command))
                /\ UNCHANGED <<db, channels, subscriptions, mailbox, conn, chan,
                               schan, hist>>
           ELSE IF me.multi_mode /\ command \notin TRANSACTION_COMMANDS
           THEN /\ conn' = [conn EXCEPT ![c].queued_commands = queued_after(@, args)]
                /\ last' = Event(c, command, args, "queued", "reply",
                                 Simple("QUEUED"))
                /\ UNCHANGED <<db, channels, subscriptions, mailbox, chan, schan,
                               hist>>
           ELSE IF command = "EXEC"
           THEN IF me.multi_mode
                THEN /\ conn' = [conn EXCEPT ![c] =
                                    [me EXCEPT !.pc = "exec", !.inExec = TRUE,
                                               !.execQ = me.queued_commands,
                                               !.outputs = <<>>]]
                     /\ last' = Event(c, command, args, "execstart", "", <<>>)
                     /\ UNCHANGED <<db, channels, subscriptions, mailbox, chan,
                                    schan, hist>>
                ELSE /\ last' = Event(c, command, args, "run", "reply",
                                      ErrorV(<<"ERR EXEC without MULTI">>))
                     /\ UNCHANGED <<db, channels, subscriptions, mailbox, conn,
                                    chan, schan, hist>>
           ELSE Apply(c, command, args, me,
                      execute_command(c, command, args, ord), "run")

\* exec_queued, one turn of its loop: the next queued command is executed,
\* under its name as it was sent
ExecStep(c, ord) ==
    /\ conn[c].pc = "exec"
    /\ conn[c].execQ # <<>>
    /\ LET queued_command == Head(conn[c].execQ)
           command == queued_command[1]
           me == [conn[c] EXCEPT !.execQ = Tail(@)]
       IN  Apply(c, command, queued_command, me,
                 execute_command(c, command, queued_command, ord), "exec")
    /\ UNCHANGED <<now, budget, got, parser, peer>>

\* exec_queued after its loop: the outputs are joined under an array header
ExecFinish(c) ==
    /\ conn[c].pc = "exec"
    /\ conn[c].execQ = <<>>
    /\ last' = Event(c, "EXEC", <<"EXEC">>, "execdone", "reply",
                     <<"*", ToString(Len(conn[c].outputs))>>
                         \o Flatten(conn[c].outputs))
    /\ conn' = [conn EXCEPT ![c].pc = "idle", ![c].inExec = FALSE,
                            ![c].multi_mode = FALSE, ![c].outputs = <<>>]
    /\ UNCHANGED <<db, now, channels, subscriptions, mailbox, chan, schan,
                   budget, hist, got, parser,
                   peer>>

\* whether the sender end of list waiter w still exists: it lives in the
\* waiters queue of a record until it is popped or the record is dropped
SenderLive(w) ==
    \E k \in Keys : \E i \in 1..Len(db[k].waiters) :
        db[k].type = "list" /\ db[k].waiters[i] = w

\* BLPOP, receiver.recv() returns: a value that was sent, or None once the
\* sender is gone; the reply is written and the receiver dropped
BlpopRecv(c) ==
    /\ conn[c].pc = "blpop"
    /\ LET w == conn[c].w
           list_name == conn[c].cur[2]
           value == chan[w].buf
           response == IF value # <<>>
                       THEN ArrayV(<<Bulk(list_name), Bulk(Head(value))>>)
                       ELSE NullArray
       IN  /\ value # <<>> \/ ~SenderLive(w)
           /\ chan' = [chan EXCEPT ![w].rx = FALSE,
                                   ![w].buf = IF value # <<>> THEN Tail(@) ELSE @]
           /\ Complete(c, conn[c], response)
           /\ last' = Event(c, "BLPOP", conn[c].cur, "wake", "reply", response)
           /\ hist' = HistAfter("BLPOP", conn[c].cur, "wake", response)
    /\ UNCHANGED <<db, now, channels, subscriptions, mailbox, schan, budget, got,
                   parser,
                   peer>>

\* BLPOP with a timeout, the sleep branch of its select wins (it may win
\* over a value that is ready): NullArray, and the receiver is dropped
BlpopTimeout(c) ==
    /\ conn[c].pc = "blpop"
    /\ conn[c].tmo # 0
    /\ chan' = [chan EXCEPT ![conn[c].w].rx = FALSE]
    /\ Complete(c, conn[c], NullArray)
    /\ last' = Event(c, "BLPOP", conn[c].cur, "timeout", "reply", NullArray)
    /\ hist' = HistAfter("BLPOP", conn[c].cur, "timeout", NullArray)
    /\ UNCHANGED <<db, now, channels, subscriptions, mailbox, schan, budget, got,
                   parser,
                   peer>>

\* XREAD, the end of one turn of its loop: the stream's array is pushed on
\* response_array; after the last turn the reply is encoded and returned
XreadTurnEnd(c, me, stream_name, entries_array) ==
    LET out == Append(me.xout, stream_array(stream_name, entries_array))
        response == IF me.xdead THEN NullArray ELSE ArrayV(out)
    IN  IF me.xi + 1 < stream_count(me.cur)
        THEN /\ conn' = [conn EXCEPT ![c] =
                            [me EXCEPT !.pc = "xread", !.xi = @ + 1, !.xout = out]]
             /\ last' = NoLast
        ELSE /\ Complete(c, [me EXCEPT !.xout = <<>>], response)
             /\ last' = Event(c, "XREAD", me.cur, "done", "reply", response)

\* XREAD, the start of a turn: the stream's name and id; "$" is replaced
\* by the last id of the stream under the read lock; an id that does not
\* match ^\d+-\d+$ ends the call with Err
XreadId(c) ==
    /\ conn[c].pc = "xread"
    /\ entry_id_at(conn[c].cur, conn[c].xi) = "$" => lock_free(c, "store")
    /\ LET me == conn[c]
           stream_name == stream_name_at(me.cur, me.xi)
           entry_id == entry_id_at(me.cur, me.xi)
           record == db[stream_name]
           resolved == entry_id = "$" /\ record.type = "stream"
                           /\ splits_back(peek_last(record))
       IN  IF resolved
           THEN conn' = [conn EXCEPT ![c] =
                            [me EXCEPT !.pc = "xread_scan", !.xid = peek_last(record)]]
           ELSE IF entry_id \in DOMAIN ReadIdTable
           THEN conn' = [conn EXCEPT ![c] =
                            [me EXCEPT !.pc = "xread_scan",
                                       !.xid = ReadIdTable[entry_id]]]
           ELSE conn' = [conn EXCEPT ![c] = [me EXCEPT !.pc = "closed"]]
    /\ last' = NoLast
    /\ UNCHANGED <<db, now, channels, subscriptions, mailbox, chan, schan,
                   budget, hist, got, parser,
                   peer>>

\* XREAD, the scan of the stream under the read lock: the entries above the
\* id; a blocking XREAD that found none goes on to subscribe a waiter
XreadScan(c) ==
    /\ conn[c].pc = "xread_scan"
    /\ lock_free(c, "store")
    /\ LET me == conn[c]
           stream_name == stream_name_at(me.cur, me.xi)
           record == db[stream_name]
           entries == IF record.type = "stream" THEN record.entries ELSE <<>>
           entries_array == entries_above(entries, me.xid)
       IN  IF \E i \in 1..Len(entries) : ~splits_back(entries[i].id)
           THEN /\ conn' = [conn EXCEPT ![c] = [me EXCEPT !.pc = "panicked"]]
                /\ last' = NoLast
           ELSE IF is_blocked(me.cur) /\ entries_array = <<>>
           THEN /\ conn' = [conn EXCEPT ![c] = [me EXCEPT !.pc = "xread_sub"]]
                /\ last' = NoLast
           ELSE XreadTurnEnd(c, me, stream_name, entries_array)
    /\ UNCHANGED <<db, now, channels, subscriptions, mailbox, chan, schan,
                   budget, hist, got, parser,
                   peer>>

\* XREAD BLOCK, under the write lock: the sender of a fresh channel is
\* subscribed to the stream (created when the key is absent); on a key of
\* another type the sender stays with the handler until the wait is over
XreadSubscribe(c) ==
    /\ conn[c].pc = "xread_sub"
    /\ lock_free(c, "store")
    /\ LET me == conn[c]
           stream_name == stream_name_at(me.cur, me.xi)
           record == db[stream_name]
           w == Len(schan) + 1
       IN  /\ schan' = Append(schan, NewSChan(c))
           /\ db' = IF record.type = "stream"
                    THEN [db EXCEPT ![stream_name].waiters = Append(@, w)]
                    ELSE IF record.type = "none"
                    THEN [db EXCEPT ![stream_name] =
                             [StreamRecord_new EXCEPT !.waiters = <<w>>]]
                    ELSE db
           /\ conn' = [conn EXCEPT ![c] =
                           [me EXCEPT !.pc = "xread_wait", !.w = w,
                                      !.tmo = from_str_radix(me.cur[3])]]
    /\ last' = NoLast
    /\ UNCHANGED <<now, channels, subscriptions, mailbox, chan, budget, hist, got,
                   parser,
                   peer>>

\* XREAD BLOCK, receiver.recv() returns an entry: above the id it ends the
\* wait (the receiver is dropped), otherwise the loop waits again
XreadRecv(c) ==
    /\ conn[c].pc = "xread_wait"
    /\ schan[conn[c].w].buf # <<>>
    /\ LET me == conn[c]
           stream_name == stream_name_at(me.cur, me.xi)
           entry == Head(schan[me.w].buf)
       IN  IF ~splits_back(entry.id)
           THEN /\ conn' = [conn EXCEPT ![c] = [me EXCEPT !.pc = "panicked"]]
                /\ schan' = [schan EXCEPT ![me.w].rx = FALSE]
                /\ last' = NoLast
           ELSE IF id_above(entry.id, me.xid)
           THEN /\ schan' = [schan EXCEPT ![me.w].rx = FALSE, ![me.w].buf = Tail(@)]
                /\ XreadTurnEnd(c, me, stream_name, <<entry_array(entry)>>)
           ELSE /\ schan' = [schan EXCEPT ![me.w].buf = Tail(@)]
                /\ conn' = conn
                /\ last' = NoLast
    /\ UNCHANGED <<db, now, channels, subscriptions, mailbox, chan, budget,
                   hist, got, parser,
                   peer>>

\* XREAD BLOCK with a timeout, the deadline branch of the select wins:
\* reached_deadline is set and the turn ends with no entries
XreadDeadline(c) ==
    /\ conn[c].pc = "xread_wait"
    /\ conn[c].tmo # 0
    /\ LET me == [conn[c] EXCEPT !.xdead = TRUE]
       IN  /\ schan' = [schan EXCEPT ![me.w].rx = FALSE]
           /\ XreadTurnEnd(c, me, stream_name_at(me.cur, me.xi), <<>>)
    /\ UNCHANGED <<db, now, channels, subscriptions, mailbox, chan, budget,
                   hist, got, parser,
                   peer>>

\* handle_client_async, the receiver.recv() branch of the select: a
\* message of the mailbox is written to the client
MailboxDeliver(c) ==
    /\ conn[c].pc = "idle"
    /\ mailbox[c] # <<>>
    /\ got' = [got EXCEPT ![c] = Append(@, Head(mailbox[c]))]
    /\ mailbox' = [mailbox EXCEPT ![c] = Tail(@)]
    /\ last' = NoLast
    /\ UNCHANGED <<db, now, channels, subscriptions, conn, chan, schan, budget,
                   hist, parser,
                   peer>>

\* the wall clock: it may advance or be set back
Tick ==
    /\ \E t \in 1..MaxClock : t # now /\ now' = t
    /\ last' = NoLast
    /\ UNCHANGED <<db, channels, subscriptions, mailbox, conn, chan, schan,
                   budget, hist, got, parser,
                   peer>>

\* ------------------------------------------------- RedisValue, RedisParser
\* A byte is a one-character string; CR, LF and NUL name the bytes 13, 10
\* and 0.
CR == "CR"

LF == "LF"

NUL == "NUL"

\* enum RedisValue, every variant with the same fields
RedisValue_String(s) ==
    [t |-> "String", s |-> s, n |-> 0, a |-> <<>>]

RedisValue_Int(n) ==
    [t |-> "Int", s |-> <<>>, n |-> n, a |-> <<>>]

RedisValue_Array(a) ==
    [t |-> "Array", s |-> <<>>, n |-> 0, a |-> a]

RedisValue_Error(s) ==
    [t |-> "Error", s |-> s, n |-> 0, a |-> <<>>]

RedisValue_Null ==
    [t |-> "Null", s |-> <<>>, n |-> 0, a |-> <<>>]

\* format!("{}", n) of an unsigned and of a signed integer, as bytes
RECURSIVE format_uint(_)
format_uint(n) ==
    IF n < 10 THEN <<ToString(n)>>
    ELSE format_uint(n \div 10) \o <<ToString(n % 10)>>

format_int(n) ==
    IF n < 0 THEN <<"-">> \o format_uint(-n) ELSE format_uint(n)

\* RedisValue::encode
RECURSIVE encode(_)
encode(value) ==
    CASE value.t = "String" ->
             <<"$">> \o format_uint(Len(value.s)) \o <<CR, LF>> \o value.s
                 \o <<CR, LF>>
      [] value.t = "Error" -> <<"-">> \o value.s \o <<CR, LF>>
      [] value.t = "Null" -> <<"$", "-", "1", CR, LF>>
      [] value.t = "Int" -> <<":">> \o format_int(value.n) \o <<CR, LF>>
      [] value.t = "Array" ->
             <<"*">> \o format_uint(Len(value.a)) \o <<CR, LF>>
                 \o Flatten([i \in 1..Len(value.a) |-> encode(value.a[i])])

\* RedisValue::as_simple_string, of a String
as_simple_string(value) ==
    <<"+">> \o value.s \o <<CR, LF>>

is_digit(b) ==
    b \in {"0", "1", "2", "3", "4", "5", "6", "7", "8", "9"}

\* the digits at the front of the bytes: take_while(is_digit)
RECURSIVE take_digits(_)
take_digits(bytes) ==
    IF bytes = <<>> \/ ~is_digit(Head(bytes)) THEN <<>>
    ELSE <<Head(bytes)>> \o take_digits(Tail(bytes))

\* the number a non-empty string of digits denotes
RECURSIVE digits_value(_)
digits_value(digits) ==
    IF digits = <<>> THEN 0
    ELSE 10 * digits_value(SubSeq(digits, 1, Len(digits) - 1))
             + (CHOOSE d \in 0..9 : ToString(d) = digits[Len(digits)])

\* read_uint: Err when no digit stands at the front
read_uint(blob) ==
    [ok |-> take_digits(blob) # <<>>, n |-> digits_value(take_digits(blob))]

\* i64::from_str_radix(s, 10): an optional sign, then digits only
parse_i64(bytes) ==
    LET signed == bytes # <<>> /\ Head(bytes) \in {"-", "+"}
        digits == IF signed THEN Tail(bytes) ELSE bytes
    IN  [ok |-> digits # <<>> /\ take_digits(digits) = digits,
         n |-> IF signed /\ Head(bytes) = "-" THEN -digits_value(take_digits(digits))
               ELSE digits_value(take_digits(digits))]

\* RedisParser::new: the buffer is kept up to the last byte ever written,
\* every byte behind it is still 0; the stream is the chunks of bytes the
\* reads of the socket will return, in order; closed tells whether the peer
\* has closed behind them (a read returns 0 bytes) or may still send (a read
\* stays pending)
RedisParser_new(stream) ==
    [stream |-> stream, closed |-> TRUE, buffer |-> <<>>, position |-> 0]

\* buffer[i], i counted from 0
byte_at(buffer, i) ==
    IF i + 1 <= Len(buffer) THEN buffer[i + 1] ELSE NUL

\* the buffer after bytes were written at position
written(buffer, position, bytes) ==
    [i \in 1..Max(Len(buffer), position + Len(bytes)) |->
        IF i > position /\ i <= position + Len(bytes) THEN bytes[i - position]
        ELSE byte_at(buffer, i - 1)]

\* buffer.copy_within(from..to, 0)
copy_within(buffer, from, to) ==
    [i \in 1..Len(buffer) |->
        IF i <= to - from THEN buffer[from + i] ELSE buffer[i]]

\* stream.read(&mut buffer[position..]): the next chunk, or 0 bytes once
\* the peer has sent everything and closed
stream_read(p) ==
    IF p.stream = <<>> THEN [ok |-> FALSE, p |-> p]
    ELSE [ok |-> TRUE,
          p |-> [p EXCEPT !.stream = Tail(@),
                          !.buffer = written(@, p.position, Head(p.stream)),
                          !.position = @ + Len(Head(p.stream))]]

\* stream.read_exact(&mut buffer[..1]) and position = 1
read_exact_1(p) ==
    IF p.stream = <<>> THEN [ok |-> FALSE, p |-> p]
    ELSE LET chunk == Head(p.stream)
         IN  [ok |-> TRUE,
              p |-> [p EXCEPT !.stream = IF Len(chunk) = 1 THEN Tail(@)
                                         ELSE <<Tail(chunk)>> \o Tail(@),
                              !.buffer = written(@, 0, <<Head(chunk)>>),
                              !.position = 1]]

\* the result of a parser call: the parser after it, how it ended ("ok", or
\* "err": Err returned, "panic", "hang": a loop that never ends, "pending":
\* suspended in a read of the socket) and what it returned
Returned(p, fate, v) ==
    [p |-> p, fate |-> fate, v |-> v]

\* the index (from 0) of the first \r in buffer[..position], -1 for None
first_cr(p) ==
    IF \E i \in 0..(p.position - 1) : byte_at(p.buffer, i) = CR
    THEN CHOOSE i \in 0..(p.position - 1) :
             /\ byte_at(p.buffer, i) = CR
             /\ \A j \in 0..(i - 1) : byte_at(p.buffer, j) # CR
    ELSE -1

\* read_blob: the bytes up to the first \r\n, which are taken off the front
\* of the buffer. A position that wrapped below 0 is beyond the buffer, the
\* slice buffer[..position] panics; a \r that is not followed by \n is
\* found again on every turn of the loop.
RECURSIVE read_blob(_)
read_blob(p) ==
    IF p.position < 0 THEN Returned(p, "panic", <<>>)
    ELSE LET cr == first_cr(p)
             more == stream_read(p)
         IN  IF cr = -1 \/ cr + 1 >= p.position
             THEN IF more.ok THEN read_blob(more.p)
                  ELSE Returned(p, IF p.closed THEN "err" ELSE "pending", <<>>)
             ELSE IF byte_at(p.buffer, cr + 1) # LF
             THEN Returned(p, "hang", <<>>)
             ELSE Returned([p EXCEPT
                               !.buffer = copy_within(@, cr + 2, p.position),
                               !.position = @ - (cr + 2)],
                           "ok", SubSeq(p.buffer, 1, cr + 2))

\* simple_string
simple_string(p) ==
    LET blob == read_blob(p)
    IN  IF blob.fate # "ok" THEN Returned(blob.p, blob.fate, RedisValue_Null)
        ELSE Returned(blob.p, "ok",
                      RedisValue_String(SubSeq(blob.v, 2, Len(blob.v) - 2)))

\* integer
integer(p) ==
    LET blob == read_blob(p)
        number == parse_i64(SubSeq(blob.v, 2, Len(blob.v) - 2))
    IN  IF blob.fate # "ok" THEN Returned(blob.p, blob.fate, RedisValue_Null)
        ELSE IF ~number.ok THEN Returned(blob.p, "err", RedisValue_Null)
        ELSE Returned(blob.p, "ok", RedisValue_Int(number.n))

\* bulk_string: after the header the payload is taken from buffer[..n]
\* whether or not it has been read; position - (n + 2) is a usize
\* subtraction, which panics below 0 in a build with overflow checks and
\* wraps (a position below 0 here) in a build without
bulk_string(p, overflow_checks) ==
    LET blob == read_blob(p)
        n == read_uint(Tail(blob.v))
        q == blob.p
    IN  IF blob.fate # "ok" THEN Returned(blob.p, blob.fate, RedisValue_Null)
        ELSE IF ~n.ok THEN Returned(q, "err", RedisValue_Null)
        ELSE IF q.position < n.n + 2 /\ overflow_checks
        THEN Returned([q EXCEPT !.buffer = SubSeq(@, n.n + 3, Len(@))],
                      "panic", RedisValue_Null)
        ELSE Returned([q EXCEPT !.buffer = SubSeq(@, n.n + 3, Len(@)),
                                !.position = @ - (n.n + 2)],
                      "ok",
                      RedisValue_String([i \in 1..n.n |-> byte_at(q.buffer, i - 1)]))

\* read_value, and array with its loop over the elements
RECURSIVE read_value(_, _)
RECURSIVE array_loop(_, _, _, _)
array_loop(p, n, values, overflow_checks) ==
    IF n = 0 THEN Returned(p, "ok", RedisValue_Array(values))
    ELSE LET value == read_value(p, overflow_checks)
         IN  IF value.fate # "ok" THEN Returned(value.p, value.fate, RedisValue_Null)
             ELSE array_loop(value.p, n - 1, Append(values, value.v),
                             overflow_checks)

array(p, overflow_checks) ==
    LET blob == read_blob(p)
        n == read_uint(Tail(blob.v))
    IN  IF blob.fate # "ok" THEN Returned(blob.p, blob.fate, RedisValue_Null)
        ELSE IF ~n.ok THEN Returned(blob.p, "err", RedisValue_Null)
        ELSE array_loop(blob.p, n.n, <<>>, overflow_checks)

read_value(p, overflow_checks) ==
    LET first == IF p.position = 0 THEN read_exact_1(p)
                 ELSE [ok |-> TRUE, p |-> p]
        q == first.p
    IN  IF ~first.ok
        THEN Returned(p, IF p.closed THEN "err" ELSE "pending", RedisValue_Null)
        ELSE CASE byte_at(q.buffer, 0) = "+" -> simple_string(q)
               [] byte_at(q.buffer, 0) = "*" -> array(q, overflow_checks)
               [] byte_at(q.buffer, 0) = "$" -> bulk_string(q, overflow_checks)
               [] byte_at(q.buffer, 0) = ":" -> integer(q)
               [] OTHER -> Returned(q, "err", RedisValue_Null)

\* the parser variable where no parser is looked at
NoParser ==
    [on |-> FALSE]

\* Registry.senders: the mailbox of every accepted connection, registered
\* when the connection is accepted, empty
senders_at_accept ==
    [c \in Conns |-> <<>>]

\* the state after construction: an empty store and registry, every
\* connection accepted and idle
InitHandlers ==
    /\ db = [k \in Keys |-> NoRecord]
    /\ now \in 1..MaxClock
    /\ channels = [ch \in Chans |-> {}]
    /\ subscriptions = [c \in Conns |-> [has |-> FALSE, set |-> {}]]
    /\ mailbox = senders_at_accept
    /\ conn = [c \in Conns |-> ClientHandler_new]
    /\ chan = <<>>
    /\ schan = <<>>
    /\ last = NoLast
    /\ hist = NoHist
    /\ got = [c \in Conns |-> <<>>]
    /\ peer = {}

InitState ==
    InitHandlers /\ parser = NoParser

\* a frame that costs one unit of the budget / a frame that costs nothing
Spend ==
    budget > 0 /\ budget' = budget - 1

Free ==
    budget' = budget

\* the iteration orders of a HashSet of connection ids
Orders ==
    {<<1, 2, 3>>, <<1, 3, 2>>, <<2, 1, 3>>, <<2, 3, 1>>, <<3, 1, 2>>, <<3, 2, 1>>}

Order ==
    <<1, 2, 3>>

\* the clients of the string commands
KVClients ==
    {1, 2}

\* ---------------------------------------------------- strings: SET and GET
Set(c) ==
    \E k \in Keys, v \in Vals : Frame(c, <<"SET", k, v>>, Order)

SetPx(c) ==
    \E v \in Vals :
        \E o \in {<<"PX", "1">>, <<"px", "2">>, <<"EX", "1">>} :
            Frame(c, <<"SET", "k", v>> \o o, Order)

Get(c) ==
    \E k \in Keys : Frame(c, <<"GET", k>>, Order)

Rpush1(c) ==
    \E k \in Keys : Frame(c, <<"RPUSH", k, "a">>, Order)

InitKV ==
    InitState /\ budget = MaxStepsKV

NextKV ==
    \/ \E c \in KVClients : Free /\ Set(c)
    \/ \E c \in KVClients : Free /\ SetPx(c)
    \/ \E c \in KVClients : Free /\ Get(c)
    \/ \E c \in KVClients : Spend /\ Rpush1(c)
    \/ Tick

SpecKV ==
    InitKV /\ [][NextKV]_vars

\* ------------------------------------------------------------------ claims
\* C1: a GET of key k that runs after a SET k v has completed, with no other
\* write to k in between and v not expired at the time of the GET, replies
\* with v as a bulk string, whichever connections issued the two commands.
C1_GetAfterSet ==
    (/\ last.ev = "cmd"
     /\ last.command = "GET"
     /\ last.how = "run"
     /\ Len(last.args) = 2
     /\ last.args[2] \in Keys
     /\ hist[last.args[2]].kind = "set"
     /\ (hist[last.args[2]].exp = -1 \/ now < hist[last.args[2]].exp))
        => last.reply = Bulk(hist[last.args[2]].v)

\* a GET has returned a value that was SET with an expiry still to come
C1_Witness ==
    /\ last.ev = "cmd"
    /\ last.command = "GET"
    /\ hist["k"].kind = "set"
    /\ hist["k"].exp # -1
    /\ now < hist["k"].exp
    /\ last.args = <<"GET", "k">>
    /\ last.reply = Bulk("b")


\* ------------------------------------------------- lists: pushes and pops
\* the frames of the list clients, all on the key "q"
Rpush(c) ==
    \E vs \in {<<"a">>, <<"b">>, <<"a", "b">>} :
        Frame(c, <<"RPUSH", "q">> \o vs, Order)

Lpush(c) ==
    \E vs \in {<<"b">>, <<"a", "b">>} :
        Frame(c, <<"LPUSH", "q">> \o vs, Order)

Lpop(c) ==
    \E n \in {<<>>, <<"2">>} : Frame(c, <<"LPOP", "q">> \o n, Order)

Blpop(c) ==
    \E t \in {"0", "1"} : Frame(c, <<"BLPOP", "q", t>>, Order)

SetOnList(c) ==
    Frame(c, <<"SET", "q", "a">>, Order)

InitList ==
    InitState /\ now = 1 /\ budget = MaxStepsList

NextList ==
    \/ \E c \in Conns : Spend /\ Rpush(c)
    \/ \E c \in Conns : Spend /\ Lpush(c)
    \/ \E c \in Conns : Spend /\ Lpop(c)
    \/ \E c \in Conns : Spend /\ Blpop(c)
    \/ \E c \in Conns : Spend /\ SetOnList(c)
    \/ \E c \in Conns : BlpopRecv(c)
    \/ \E c \in Conns : BlpopTimeout(c)

SpecList ==
    InitList /\ [][NextList]_vars


\* the waiters of a queue whose receiver end still exists, oldest first
LiveOf(waiters, ch) ==
    SelectSeq(waiters, LAMBDA w : ch[w].rx)

\* the connections suspended in a BLPOP on key k
BlockedOn(k) ==
    {c \in Conns : conn[c].pc = "blpop" /\ conn[c].cur[2] = k}

\* C2: when BLPOPs are blocked on a key, an RPUSH / LPUSH hands its values,
\* in order, to the live waiters in the order they registered (oldest
\* first); closed waiters are skipped and receive nothing, and only the
\* values left over once no live waiter remains are put in the list.
C2_OldestLiveWaiterFirst ==
    [][\A k \in Keys :
          (/\ last'.ev = "cmd"
           /\ last'.command \in {"RPUSH", "LPUSH"}
           /\ last'.fate = "reply"
           /\ last'.reply[1] = ":"
           /\ last'.args[2] = k
           /\ db[k].type = "list")
          => LET live == LiveOf(db[k].waiters, chan)
                 values == SubSeq(last'.args, 3, Len(last'.args))
                 n == Min(Len(values), Len(live))
                 rest == SubSeq(values, n + 1, Len(values))
             IN  /\ \A i \in 1..(Len(db[k].waiters) - 1) :
                        db[k].waiters[i] < db[k].waiters[i + 1]
                 /\ \A i \in 1..n : chan'[live[i]].buf = <<values[i]>>
                 /\ \A w \in 1..Len(chan) :
                        (\A i \in 1..n : live[i] # w) => chan'[w] = chan[w]
                 /\ LiveOf(db'[k].waiters, chan') = SubSeq(live, n + 1, Len(live))
                 /\ db'[k].list = IF last'.command = "RPUSH"
                                  THEN db[k].list \o rest
                                  ELSE Reverse(rest) \o db[k].list]_vars

\* a push has skipped a closed waiter and woken the older of two live ones
C2_Witness ==
    /\ last.ev = "cmd"
    /\ last.command = "RPUSH"
    /\ last.fate = "reply"
    /\ \E w1, w2, w3 \in 1..Len(chan) :
          /\ w1 < w2 /\ w2 < w3
          /\ ~chan[w1].rx /\ chan[w1].buf = <<>>
          /\ chan[w2].rx /\ chan[w2].buf # <<>>
          /\ chan[w3].rx /\ chan[w3].buf = <<>>
          /\ db["q"].waiters = <<w3>>

C4_TimeoutZeroNeverNil ==
    ~(/\ last.ev = "cmd"
      /\ last.command = "BLPOP"
      /\ Len(last.args) = 3
      /\ last.args[3] = "0"
      /\ last.fate = "reply"
      /\ last.reply = NullArray)

\* C5: on a list that only RPUSH, LPUSH and LPOP have touched, the values
\* the LPOPs returned are those the reference deque yields, in order, and
\* the list holds what the reference deque holds.
C5_ReferenceDeque ==
    \A k \in Keys :
        hist[k].pure =>
            /\ hist[k].popped = hist[k].ref
            /\ db[k].type \in {"none", "list"}
            /\ db[k].list = hist[k].dq
            /\ db[k].waiters = <<>>

\* LPUSH q a b followed by LPOP q 2 has returned b, a
C5_Witness ==
    /\ hist["q"].pure
    /\ last.ev = "cmd"
    /\ last.args = <<"LPOP", "q", "2">>
    /\ last.reply = ArrayV(<<Bulk("b"), Bulk("a")>>)
    /\ hist["q"].pushed = <<"a", "b">>


\* ---------------------------------------------------- streams: XADD, XREAD
\* the clients that add to the stream "k" and the clients that read it
Writers ==
    {1}

Readers ==
    {2, 3}

Xadd(c) ==
    \E id \in DOMAIN IdTable : Frame(c, <<"XADD", "k", id, "f", "a">>, Order)

XreadBlock(c) ==
    \E t \in {"0", "1"}, id \in {"$", "0-1"} :
        Frame(c, <<"XREAD", "BLOCK", t, "streams", "k", id>>, Order)

Xread(c) ==
    Frame(c, <<"XREAD", "STREAMS", "k", "0-0">>, Order)

InitStream ==
    InitState /\ now = 1 /\ budget = MaxStepsStream

NextStream ==
    \/ \E c \in Writers : Spend /\ Xadd(c)
    \/ \E c \in Readers : Spend /\ XreadBlock(c)
    \/ \E c \in Readers : Spend /\ Xread(c)
    \/ \E c \in Conns : XreadId(c)
    \/ \E c \in Conns : XreadScan(c)
    \/ \E c \in Conns : XreadSubscribe(c)
    \/ \E c \in Conns : XreadRecv(c)
    \/ \E c \in Conns : XreadDeadline(c)
    \/ Tick

SpecStream ==
    InitStream /\ [][NextStream]_vars


\* (ms, seq) below (ms2, seq2) in lexicographic order
IdLess(a, b) ==
    a[1] < b[1] \/ (a[1] = b[1] /\ a[2] < b[2])

\* C6: in every reachable state the entries of every stream have strictly
\* increasing (ms, seq) ids and none has the id 0-0, whatever explicit,
\* ms-* and * ids were added and however the clock moved between the calls.
C6_StreamIdsIncrease ==
    \A k \in Keys :
        db[k].type = "stream" =>
            /\ \A i \in 1..(Len(db[k].entries) - 1) :
                   IdLess(db[k].entries[i].id, db[k].entries[i + 1].id)
            /\ \A i \in 1..Len(db[k].entries) : db[k].entries[i].id # <<0, 0>>

\* a stream of three entries whose last id was generated from the clock
C6_Witness ==
    /\ Len(db["k"].entries) = 3
    /\ last.ev = "cmd"
    /\ last.command = "XADD"
    /\ last.args[3] = "*"
    /\ last.reply = Bulk(IdStr(db["k"].entries[3].id))
    /\ db["k"].entries[2].id[1] = db["k"].entries[3].id[1]

\* the explicit ids the clients send, with the value of each part; 2^63 is
\* beyond the integers of the model and is represented by their largest
ExplicitIds ==
    [s \in {"0-0", "0-1", "1-0", "1-1", "2-0", "9223372036854775808-0"} |->
        CASE s = "0-0" -> <<0, 0>>
          [] s = "0-1" -> <<0, 1>>
          [] s = "1-0" -> <<1, 0>>
          [] s = "1-1" -> <<1, 1>>
          [] s = "2-0" -> <<2, 0>>
          [] s = "9223372036854775808-0" -> <<2147483647, 0>>]

\* the last id of the stream at key k (0-0 for an empty or absent stream)
LastId(k) ==
    IF db[k].entries = <<>> THEN <<0, 0>>
    ELSE db[k].entries[Len(db[k].entries)].id

\* C7: an XADD with an explicit id that is 0-0 or not above the stream's
\* last id replies with an error and leaves the stream's entries and
\* waiters (and what the waiters were sent) unchanged; an explicit id above
\* the last id is accepted: the reply is the id and the entry is appended.
C7_ExplicitIdRule ==
    [][\A k \in Keys :
          (/\ last'.ev = "cmd"
           /\ last'.command = "XADD"
           /\ Len(last'.args) = 5
           /\ last'.args[2] = k
           /\ last'.args[3] \in DOMAIN ExplicitIds
           /\ db[k].type \in {"none", "stream"})
          => LET id == ExplicitIds[last'.args[3]]
             IN  IF id = <<0, 0>> \/ ~IdLess(LastId(k), id)
                 THEN /\ last'.fate = "reply"
                      /\ last'.reply[1] = "-"
                      /\ db'[k] = db[k]
                      /\ schan' = schan
                 ELSE /\ last'.fate = "reply"
                      /\ last'.reply = Bulk(last'.args[3])
                      /\ db'[k].type = "stream"
                      /\ Len(db'[k].entries) = Len(db[k].entries) + 1
                      /\ SubSeq(db'[k].entries, 1, Len(db[k].entries)) = db[k].entries
                      /\ LastId(k)' = id]_vars


\* C7 for the explicit ids whose parts fit an i64, on a stream whose last
\* id does: the rule of C7 holds in every XADD step.
C7_WithinI64 ==
    [][\A k \in Keys :
          (/\ last'.ev = "cmd"
           /\ last'.command = "XADD"
           /\ Len(last'.args) = 5
           /\ last'.args[2] = k
           /\ last'.args[3] \in DOMAIN ExplicitIds \ {"9223372036854775808-0"}
           /\ db[k].type \in {"none", "stream"}
           /\ splits_back(LastId(k)))
          => LET id == ExplicitIds[last'.args[3]]
             IN  IF id = <<0, 0>> \/ ~IdLess(LastId(k), id)
                 THEN /\ last'.fate = "reply"
                      /\ last'.reply[1] = "-"
                      /\ db'[k] = db[k]
                      /\ schan' = schan
                 ELSE /\ last'.fate = "reply"
                      /\ last'.reply = Bulk(last'.args[3])
                      /\ db'[k].type = "stream"
                      /\ Len(db'[k].entries) = Len(db[k].entries) + 1
                      /\ SubSeq(db'[k].entries, 1, Len(db[k].entries)) = db[k].entries
                      /\ LastId(k)' = id]_vars

\* ------------------------------------------- pub/sub: the registry, PUBLISH
\* the clients that subscribe and the clients that publish
Subscribers ==
    {1, 2}

Publishers ==
    {2, 3}

Subscribe(c) ==
    \E ch \in Chans : Frame(c, <<"SUBSCRIBE", ch>>, Order)

Unsubscribe(c) ==
    \E ch \in Chans : Frame(c, <<"UNSUBSCRIBE", ch>>, Order)

Publish(c) ==
    \E ch \in Chans, m \in Vals, ord \in Orders :
        Frame(c, <<"PUBLISH", ch, m>>, ord)

InitPubSub ==
    InitState /\ now = 1 /\ budget = MaxStepsPubSub

NextPubSub ==
    \/ \E c \in Subscribers : Spend /\ Subscribe(c)
    \/ \E c \in Subscribers : Spend /\ Unsubscribe(c)
    \/ \E c \in Publishers : Spend /\ Publish(c)
    \/ \E c \in Conns : MailboxDeliver(c)

SpecPubSub ==
    InitPubSub /\ [][NextPubSub]_vars

\* C8: after any sequence of SUBSCRIBE and UNSUBSCRIBE by any connections,
\* connection c is in channels[ch] exactly when ch is in subscriptions[c].
C8_RegistrySymmetry ==
    \A c \in Conns : \A ch \in Chans :
        c \in channels[ch] <=> ch \in subscriptions[c].set

\* an UNSUBSCRIBE has left its connection on one channel and another
\* connection on the channel it left
C8_Witness ==
    /\ last.ev = "cmd"
    /\ last.command = "UNSUBSCRIBE"
    /\ last.c = 1
    /\ channels["news"] = {2}
    /\ channels["misc"] = {1}

\* what connection c was sent from its mailbox and what still waits in it
Enqueued(c) ==
    got[c] \o mailbox[c]

\* C9: a PUBLISH ch m whose subscribers' handlers are all running appends
\* one ["message", ch, m] to the mailbox of each connection in channels[ch]
\* and to no other, and replies with their number; and what a connection is
\* written from its mailbox, followed by what still waits there, only ever
\* grows at the end, by the PUBLISH calls in their order.
C9_PublishDelivery ==
    [][LET published == /\ last'.ev = "cmd"
                        /\ last'.command = "PUBLISH"
                        /\ last'.how \in {"run", "exec"}
                        /\ Len(last'.args) = 3
                        /\ \A c \in channels[last'.args[2]] : Alive(c)
       IN  /\ published =>
                 /\ last'.fate = "reply"
                 /\ last'.reply = IntV(Cardinality(channels[last'.args[2]]))
                 /\ \A c \in Conns :
                        mailbox'[c] =
                            IF c \in channels[last'.args[2]]
                            THEN Append(mailbox[c],
                                        MessageV(last'.args[2], last'.args[3]))
                            ELSE mailbox[c]
                 /\ got' = got
           /\ ~published => \A c \in Conns : Enqueued(c)' = Enqueued(c)]_vars

\* two subscribers of a channel have each been sent the messages a, b of two
\* PUBLISH calls in that order, and the publisher nothing
C9_Witness ==
    /\ last.ev = "cmd"
    /\ last.command = "PUBLISH"
    /\ last.reply = IntV(2)
    /\ Enqueued(1) = <<MessageV("news", "a"), MessageV("news", "b")>>
    /\ Enqueued(2) = <<MessageV("news", "a"), MessageV("news", "b")>>
    /\ got[1] # <<>>
    /\ Enqueued(3) = <<>>

\* C11: after any sequence of SUBSCRIBE and UNSUBSCRIBE commands (a channel
\* subscribed twice, a channel left that was never joined), a connection's
\* subscribe_mode is true exactly when it has at least one subscription, and
\* the count in every subscribe / unsubscribe reply is the size of
\* subscriptions[c] after the command.
C11_ModeIffSubscribed ==
    /\ \A c \in Conns :
          conn[c].subscribe_mode <=> Cardinality(subscriptions[c].set) > 0
    /\ (/\ last.ev = "cmd"
        /\ last.command \in {"SUBSCRIBE", "UNSUBSCRIBE"}
        /\ Len(last.args) = 2
        /\ last.fate = "reply")
           => last.reply =
                  ArrayV(<<Bulk(IF last.command = "SUBSCRIBE"
                                THEN "subscribe" ELSE "unsubscribe"),
                           Bulk(last.args[2]),
                           IntV(Cardinality(subscriptions[last.c].set))>>)

\* a connection that holds one channel has left a channel it never joined
\* and stays in subscribe mode, the other connection has left its only one
C11_Witness ==
    /\ last.ev = "cmd"
    /\ last.args = <<"UNSUBSCRIBE", "misc">>
    /\ last.c = 1
    /\ last.reply = ArrayV(<<Bulk("unsubscribe"), Bulk("misc"), IntV(1)>>)
    /\ conn[1].subscribe_mode
    /\ subscriptions[1].set = {"news"}
    /\ subscriptions[2].has
    /\ subscriptions[2].set = {}
    /\ ~conn[2].subscribe_mode

\* ------------------------------------- the connection's modes: MULTI, EXEC
ModeClients ==
    {1, 2}

Multi(c) ==
    Frame(c, <<"MULTI">>, Order)

Exec(c) ==
    Frame(c, <<"EXEC">>, Order)

SubscribeNews(c) ==
    \E cmd \in {"SUBSCRIBE", "subscribe"} : Frame(c, <<cmd, "news">>, Order)

UnsubscribeNews(c) ==
    Frame(c, <<"UNSUBSCRIBE", "news">>, Order)

SetK(c) ==
    \E v \in Vals : Frame(c, <<"SET", "k", v>>, Order)

GetK(c) ==
    Frame(c, <<"GET", "k">>, Order)

Ping(c) ==
    Frame(c, <<"PING">>, Order)

InitMode ==
    InitState /\ now = 1 /\ budget = MaxStepsMode

NextMode ==
    \/ \E c \in ModeClients : Spend /\ Multi(c)
    \/ \E c \in ModeClients : Spend /\ Exec(c)
    \/ \E c \in ModeClients : Spend /\ SubscribeNews(c)
    \/ \E c \in ModeClients : Spend /\ UnsubscribeNews(c)
    \/ \E c \in ModeClients : Spend /\ SetK(c)
    \/ \E c \in ModeClients : Spend /\ GetK(c)
    \/ \E c \in ModeClients : Spend /\ Ping(c)
    \/ \E c \in Conns : \E ord \in Orders : ExecStep(c, ord)
    \/ \E c \in Conns : ExecFinish(c)

SpecMode ==
    InitMode /\ [][NextMode]_vars

\* C10: while a connection's subscribe_mode is true, every command it
\* executes other than SUBSCRIBE, UNSUBSCRIBE, PSUBSCRIBE, PUNSUBSCRIBE, PING
\* and QUIT is answered with the "Can't execute ... in subscribed mode"
\* error and changes neither the store, the registry, nor the connection's
\* flags and queue.
C10_SubscribedModeRejects ==
    [][\A c \in Conns :
          (/\ last'.ev = "cmd"
           /\ last'.c = c
           /\ last'.how \in {"rejected", "queued", "run", "exec", "execstart"}
           /\ conn[c].subscribe_mode
           /\ to_ascii_uppercase(last'.command) \notin SUBSCRIBE_MODE_COMMANDS)
          => /\ last'.reply = SubscribedModeError(to_ascii_uppercase(last'.command))
             /\ db' = db
             /\ channels' = channels
             /\ subscriptions' = subscriptions
             /\ conn'[c].subscribe_mode = conn[c].subscribe_mode
             /\ conn'[c].multi_mode = conn[c].multi_mode
             /\ conn'[c].queued_commands = conn[c].queued_commands]_vars

\* C10 for the frames the handler reads (not the commands EXEC runs): in
\* subscribed mode they are rejected and change nothing.
C10_FramesRejected ==
    [][\A c \in Conns :
          (/\ last'.ev = "cmd"
           /\ last'.c = c
           /\ last'.how \in {"rejected", "queued", "run", "execstart"}
           /\ conn[c].subscribe_mode
           /\ to_ascii_uppercase(last'.command) \notin SUBSCRIBE_MODE_COMMANDS)
          => /\ last'.reply = SubscribedModeError(to_ascii_uppercase(last'.command))
             /\ db' = db
             /\ channels' = channels
             /\ subscriptions' = subscriptions
             /\ conn'[c] = conn[c]]_vars

\* C12: while a connection's multi_mode is true, every frame it sends other
\* than MULTI, EXEC and DISCARD is appended to queued_commands and answered
\* with the simple string QUEUED, and changes neither the store nor the
\* pub/sub registry nor the mailboxes; the connection stays in multi mode.
C12_QueuedInMultiMode ==
    [][\A c \in Conns :
          (/\ last'.ev = "cmd"
           /\ last'.c = c
           /\ last'.how \in {"rejected", "queued", "run", "execstart"}
           /\ conn[c].multi_mode
           /\ to_ascii_uppercase(last'.command) \notin TRANSACTION_COMMANDS)
          => /\ last'.how = "queued"
             /\ last'.reply = Simple("QUEUED")
             /\ conn'[c].queued_commands = Append(conn[c].queued_commands, last'.args)
             /\ conn'[c].multi_mode
             /\ conn'[c].pc = "idle"
             /\ db' = db
             /\ channels' = channels
             /\ subscriptions' = subscriptions
             /\ mailbox' = mailbox]_vars

\* a SUBSCRIBE has been queued behind a SET, and nothing was stored or
\* registered
C12_Witness ==
    /\ last.ev = "cmd"
    /\ last.how = "queued"
    /\ last.c = 1
    /\ conn[1].queued_commands = <<<<"SET", "k", "a">>, <<"SUBSCRIBE", "news">>>>
    /\ db["k"].type = "none"
    /\ channels["news"] = {}

\* ------------------------------------------- transactions: MULTI ... EXEC
\* the client that runs transactions on the key "k" and the client that
\* writes the key meanwhile
TxClients ==
    {1}

TxOthers ==
    {2}

Discard(c) ==
    Frame(c, <<"DISCARD">>, Order)

SetLower(c) ==
    Frame(c, <<"set", "k", "a">>, Order)

SetOne(c) ==
    Frame(c, <<"SET", "k", "1">>, Order)

GetNoKey(c) ==
    Frame(c, <<"GET">>, Order)

RpushK(c) ==
    Frame(c, <<"RPUSH", "k", "a">>, Order)

IncrK(c) ==
    Frame(c, <<"INCR", "k">>, Order)

InitTx ==
    InitState /\ now = 1 /\ budget = MaxStepsTx

NextTx ==
    \/ \E c \in TxClients : Spend /\ Multi(c)
    \/ \E c \in TxClients : Spend /\ Exec(c)
    \/ \E c \in TxClients : Spend /\ Discard(c)
    \/ \E c \in TxClients \cup TxOthers : Spend /\ SetK(c)
    \/ \E c \in TxClients : Spend /\ SetLower(c)
    \/ \E c \in TxClients : Spend /\ SetOne(c)
    \/ \E c \in TxClients : Spend /\ GetK(c)
    \/ \E c \in TxClients : Spend /\ GetNoKey(c)
    \/ \E c \in TxClients : Spend /\ RpushK(c)
    \/ \E c \in TxClients : Spend /\ IncrK(c)
    \/ \E c \in Conns : ExecStep(c, Order)
    \/ \E c \in Conns : ExecFinish(c)

SpecTx ==
    InitTx /\ [][NextTx]_vars

\* what the frame args would do if connection c sent it directly, outside
\* multi mode: the mode check and the command under its upper-cased name
DirectOutcome(c, args) ==
    LET command == to_ascii_uppercase(args[1])
    IN  IF conn[c].subscribe_mode /\ command \notin SUBSCRIBE_MODE_COMMANDS
        THEN Reply(c, SubscribedModeError(command))
        ELSE execute_command(c, command, args, Order)

\* C13: EXEC runs the queued commands in queueing order, each with the
\* reply and the effect on the store that the same frame would have had if
\* sent directly at that point, and replies with the array of these replies.
C13_ExecAsDirect ==
    [][\A c \in Conns :
          /\ (last'.ev = "cmd" /\ last'.c = c /\ last'.how = "exec")
                => LET direct == DirectOutcome(c, last'.args)
                   IN  /\ last'.args = Head(conn[c].execQ)
                       /\ last'.fate = direct.fate
                       /\ direct.fate = "reply" =>
                              /\ last'.reply = direct.reply
                              /\ conn'[c].outputs = Append(conn[c].outputs, direct.reply)
                       /\ db' = direct.db
          /\ (last'.ev = "cmd" /\ last'.c = c /\ last'.how = "execdone")
                => /\ Len(conn[c].outputs) = Len(conn[c].queued_commands)
                   /\ last'.reply = <<"*", ToString(Len(conn[c].outputs))>>
                                        \o Flatten(conn[c].outputs)]_vars

\* C13 for the queued frames whose command name was sent in upper case, on
\* a connection that is not in subscribe mode
C13_UpperCaseAsDirect ==
    [][\A c \in Conns :
          /\ (/\ last'.ev = "cmd" /\ last'.c = c /\ last'.how = "exec"
              /\ last'.args[1] = to_ascii_uppercase(last'.args[1])
              /\ ~conn[c].subscribe_mode)
                => LET direct == DirectOutcome(c, last'.args)
                   IN  /\ last'.args = Head(conn[c].execQ)
                       /\ last'.fate = direct.fate
                       /\ direct.fate = "reply" =>
                              /\ last'.reply = direct.reply
                              /\ conn'[c].outputs = Append(conn[c].outputs, direct.reply)
                       /\ db' = direct.db
          /\ (last'.ev = "cmd" /\ last'.c = c /\ last'.how = "execdone")
                => /\ Len(conn[c].outputs) = Len(conn[c].queued_commands)
                   /\ last'.reply = <<"*", ToString(Len(conn[c].outputs))>>
                                        \o Flatten(conn[c].outputs)]_vars

\* C14: when EXEC has completed, the connection's multi_mode is false and
\* its queued_commands is empty.
C14_ExecClearsQueue ==
    (last.ev = "cmd" /\ last.how = "execdone")
        => /\ ~conn[last.c].multi_mode
           /\ conn[last.c].queued_commands = <<>>

\* C14 for the flag alone: when EXEC has completed, multi_mode is false
C14_ExecClearsMode ==
    (last.ev = "cmd" /\ last.how = "execdone") => ~conn[last.c].multi_mode

\* C15: a DISCARD sent in multi mode replies OK, empties queued_commands,
\* clears multi_mode and leaves the store as it is.
C15_DiscardClears ==
    [][\A c \in Conns :
          (/\ last'.ev = "cmd"
           /\ last'.c = c
           /\ last'.command = "DISCARD"
           /\ last'.how \in {"rejected", "queued", "run"}
           /\ conn[c].multi_mode)
          => /\ last'.reply = Simple("OK")
             /\ ~conn'[c].multi_mode
             /\ conn'[c].queued_commands = <<>>
             /\ db' = db]_vars

\* C16: a MULTI sent in multi mode replies with an error; a MULTI sent in
\* normal state sets multi_mode and replies OK; an EXEC sent while
\* multi_mode is false replies ERR EXEC without MULTI and changes nothing.
C16_MultiExecErrors ==
    [][\A c \in Conns :
          (/\ last'.ev = "cmd"
           /\ last'.c = c
           /\ last'.how \in {"queued", "run", "execstart"}
           /\ ~conn[c].subscribe_mode)
          => /\ (last'.args = <<"MULTI">> /\ conn[c].multi_mode)
                   => (last'.fate = "reply" /\ last'.reply[1] = "-")
             /\ (last'.args = <<"MULTI">> /\ ~conn[c].multi_mode)
                   => (last'.reply = Simple("OK") /\ conn'[c].multi_mode)
             /\ (last'.args = <<"EXEC">> /\ ~conn[c].multi_mode)
                   => /\ last'.reply = ErrorV(<<"ERR EXEC without MULTI">>)
                      /\ db' = db
                      /\ channels' = channels
                      /\ subscriptions' = subscriptions
                      /\ conn' = conn]_vars

\* C16 without the nested MULTI: MULTI in normal state and EXEC without
\* MULTI behave as stated
C16_NormalState ==
    [][\A c \in Conns :
          (/\ last'.ev = "cmd"
           /\ last'.c = c
           /\ last'.how \in {"queued", "run", "execstart"}
           /\ ~conn[c].subscribe_mode
           /\ ~conn[c].multi_mode)
          => /\ last'.args = <<"MULTI">>
                   => (last'.reply = Simple("OK") /\ conn'[c].multi_mode)
             /\ last'.args = <<"EXEC">>
                   => /\ last'.reply = ErrorV(<<"ERR EXEC without MULTI">>)
                      /\ db' = db
                      /\ channels' = channels
                      /\ subscriptions' = subscriptions
                      /\ conn' = conn]_vars

\* whether the queued frame args fails on the store as it is: a wrong
\* number of arguments, a push on a key that holds no list, an INCR of a
\* string that is no integer
FailsAtExec(args) ==
    \/ args[1] = "GET" /\ Len(args) # 2
    \/ args[1] = "RPUSH" /\ Len(args) >= 3 /\ db[args[2]].type \notin {"none", "list"}
    \/ /\ args[1] = "INCR" /\ Len(args) = 2
       /\ db[args[2]].type = "string"
       /\ db[args[2]].value \notin DOMAIN IntTable

\* C17: a queued command that fails when EXEC runs it puts an error on the
\* outputs of EXEC as its element; EXEC goes on with the commands queued
\* behind it and the connection stays open.
C17_ExecRecordsErrors ==
    [][\A c \in Conns :
          (/\ last'.ev = "cmd" /\ last'.c = c /\ last'.how = "exec"
           /\ FailsAtExec(last'.args))
          => /\ last'.fate = "reply"
             /\ last'.reply[1] = "-"
             /\ conn'[c].outputs = Append(conn[c].outputs, last'.reply)
             /\ conn'[c].pc = "exec"
             /\ conn'[c].execQ = Tail(conn[c].execQ)]_vars

\* C17 for the queued commands that fail by their argument count or by an
\* INCR of a string that is no integer
C17_ArityAndValueErrors ==
    [][\A c \in Conns :
          (/\ last'.ev = "cmd" /\ last'.c = c /\ last'.how = "exec"
           /\ FailsAtExec(last'.args)
           /\ last'.args[1] # "RPUSH")
          => /\ last'.fate = "reply"
             /\ last'.reply[1] = "-"
             /\ conn'[c].outputs = Append(conn[c].outputs, last'.reply)
             /\ conn'[c].pc = "exec"
             /\ conn'[c].execQ = Tail(conn[c].execQ)]_vars

\* ------------------------------------------------- strings: expiry, TYPE
\* the wall clock a second later
TickSecond ==
    /\ now <= MaxClock
    /\ now' = now + MsPerSec
    /\ last' = NoLast
    /\ UNCHANGED <<db, channels, subscriptions, mailbox, conn, chan, schan,
                   budget, hist, got, parser,
                   peer>>

SetExpiring(c) ==
    \E v \in Vals :
        \E o \in {<<"PX", "1">>, <<"PX", "2">>, <<"ex", "1">>} :
            Frame(c, <<"SET", "k", v>> \o o, Order)

TypeK(c) ==
    Frame(c, <<"TYPE", "k">>, Order)

InitExpiry ==
    InitState /\ budget = MaxStepsKV

NextExpiry ==
    \/ \E c \in KVClients : Free /\ SetExpiring(c)
    \/ \E c \in KVClients : Free /\ SetK(c)
    \/ \E c \in KVClients : Free /\ GetK(c)
    \/ \E c \in KVClients : Free /\ TypeK(c)
    \/ \E c \in KVClients : Spend /\ RpushK(c)
    \/ Tick
    \/ TickSecond

SpecExpiry ==
    InitExpiry /\ [][NextExpiry]_vars

TypeNone ==
    Simple("none")

\* C19: a string whose expiry instant has passed is absent for every read
\* command: in the states where GET k replies nil because k has expired,
\* TYPE k replies none.
C19_TypeOfExpired ==
    (/\ last.ev = "cmd"
     /\ last.args = <<"TYPE", "k">>
     /\ last.fate = "reply"
     /\ hist["k"].kind = "set"
     /\ hist["k"].exp # -1
     /\ now >= hist["k"].exp)
        => last.reply = TypeNone

\* C19 for the keys that have not expired: TYPE replies string after a SET,
\* list after a push on an absent key, none on a key never written
C19_TypeOfLive ==
    (/\ last.ev = "cmd"
     /\ last.args = <<"TYPE", "k">>
     /\ last.fate = "reply")
        => /\ (hist["k"].kind = "set" /\ (hist["k"].exp = -1 \/ now < hist["k"].exp))
                 => last.reply = Simple("string")
           /\ hist["k"].kind = "none" => last.reply = TypeNone
           /\ db["k"].type = "list" => last.reply = Simple("list")

\* ------------------------------------------ one key, three record variants
LpushK(c) ==
    Frame(c, <<"LPUSH", "k", "b">>, Order)

XaddK(c) ==
    \E id \in {"1-0", "*"} : Frame(c, <<"XADD", "k", id, "f", "a">>, Order)

InitVariant ==
    InitState /\ now = 1 /\ budget = MaxStepsVariant

NextVariant ==
    \/ \E c \in KVClients : Spend /\ SetK(c)
    \/ \E c \in KVClients : Spend /\ GetK(c)
    \/ \E c \in KVClients : Spend /\ IncrK(c)
    \/ \E c \in KVClients : Spend /\ RpushK(c)
    \/ \E c \in KVClients : Spend /\ LpushK(c)
    \/ \E c \in KVClients : Spend /\ XaddK(c)
    \/ \E c \in KVClients : Spend /\ TypeK(c)

SpecVariant ==
    InitVariant /\ [][NextVariant]_vars

\* the record variant each command is typed for
TypedFor ==
    [command \in {"GET", "INCR", "RPUSH", "LPUSH", "XADD"} |->
        CASE command \in {"GET", "INCR"} -> "string"
          [] command \in {"RPUSH", "LPUSH"} -> "list"
          [] command = "XADD" -> "stream"]

\* the frame just executed was typed for another variant than the one its
\* key held
WrongVariant(c) ==
    /\ last'.ev = "cmd"
    /\ last'.c = c
    /\ last'.how = "run"
    /\ last'.command \in DOMAIN TypedFor
    /\ Len(last'.args) >= 2
    /\ db[last'.args[2]].type \notin {"none", TypedFor[last'.command]}

\* C20: a command typed for one record variant, sent for a key that holds
\* another variant, is answered with an error and never with a nil bulk
\* string, an integer or an id; the record stays as it is and the
\* connection stays open.
C20_WrongTypeError ==
    [][\A c \in Conns :
          WrongVariant(c)
          => /\ last'.fate = "reply"
             /\ last'.reply[1] = "-"
             /\ db' = db
             /\ conn'[c].pc = "idle"]_vars

\* C20 for the record alone: a command sent for a key of another variant
\* leaves the store as it is
C20_RecordUnchanged ==
    [][\A c \in Conns : WrongVariant(c) => db' = db]_vars

\* ------------------------------------------------------ rejected commands
MaxStepsReject == 3

\* the clients of the frames that are rejected
RejectClients ==
    {1, 2}

\* well-framed commands with a wrong number of arguments
BadArity ==
    {<<"ECHO">>, <<"SET", "k">>, <<"GET">>, <<"SUBSCRIBE">>,
     <<"PUBLISH", "news">>, <<"UNSUBSCRIBE">>, <<"RPUSH", "q">>,
     <<"LPUSH", "q">>, <<"LRANGE", "q", "0">>, <<"LLEN">>, <<"LPOP">>,
     <<"BLPOP", "q">>, <<"TYPE">>, <<"XADD", "k", "1-0">>,
     <<"XRANGE", "k", "-">>, <<"XREAD", "streams", "k">>, <<"INCR">>,
     <<"MULTI", "x">>}

\* commands with the right number of arguments and an argument whose
\* content is invalid
BadContent ==
    {<<"SET", "k", "a", "PX", "x">>, <<"SET", "k", "a", "EX", "x">>,
     <<"LRANGE", "q", "x", "1">>, <<"LRANGE", "q", "0", "x">>,
     <<"LPOP", "q", "x">>, <<"BLPOP", "q", "x">>,
     <<"XADD", "k", "bad", "f", "a">>, <<"XRANGE", "k", "bad", "+">>,
     <<"XRANGE", "k", "-", "bad">>,
     <<"XREAD", "block", "x", "streams", "k", "0-0">>}

\* XREAD with a malformed id: the id is looked at inside the loop
BadReadId ==
    <<"XREAD", "streams", "k", "bad">>

RejectArity(c) ==
    \E args \in BadArity : Frame(c, args, Order)

RejectContent(c) ==
    \E args \in BadContent : Frame(c, args, Order)

RejectReadId(c) ==
    Frame(c, BadReadId, Order)

RpushQ(c) ==
    Frame(c, <<"RPUSH", "q", "a">>, Order)

XaddOne(c) ==
    Frame(c, <<"XADD", "k", "1-0", "f", "a">>, Order)

LrangeQ(c) ==
    \E start, stop \in {"-1", "0", "1"} :
        Frame(c, <<"LRANGE", "q", start, stop>>, Order)

XrangeK(c) ==
    Frame(c, <<"XRANGE", "k", "-", "+">>, Order)

LlenQ(c) ==
    Frame(c, <<"LLEN", "q">>, Order)

InitReject ==
    InitState /\ now = 1 /\ budget = MaxStepsReject

NextReject ==
    \/ \E c \in RejectClients : Spend /\ RejectArity(c)
    \/ \E c \in RejectClients : Spend /\ RejectContent(c)
    \/ \E c \in RejectClients : Spend /\ RejectReadId(c)
    \/ \E c \in RejectClients : Spend /\ RpushQ(c)
    \/ \E c \in RejectClients : Spend /\ XaddOne(c)
    \/ \E c \in RejectClients : Spend /\ SetK(c)
    \/ \E c \in RejectClients : Spend /\ LrangeQ(c)
    \/ \E c \in RejectClients : Spend /\ XrangeK(c)
    \/ \E c \in RejectClients : Spend /\ LlenQ(c)
    \/ \E c \in RejectClients : Free /\ XreadId(c)

SpecReject ==
    InitReject /\ [][NextReject]_vars

\* the step is the whole answer to a rejected frame: an Error Value is
\* written, nothing else changes, the connection reads on
AnsweredWithError(c) ==
    /\ last'.fate = "reply"
    /\ last'.reply # <<>>
    /\ last'.reply[1] = "-"
    /\ conn'[c] = conn[c]
    /\ conn'[c].pc = "idle"
    /\ UNCHANGED <<db, channels, subscriptions, mailbox>>

\* C21: a well-framed command that is rejected for a wrong number of
\* arguments or for an invalid argument (a non-numeric PX/EX value,
\* LRANGE index, LPOP count, BLPOP or BLOCK timeout, a malformed XADD, XRANGE
\* or XREAD id) is answered with an Error Value, changes neither the store,
\* the registry nor the connection's flags, and leaves the connection open.
C21_RejectedWithError ==
    [][\A c \in RejectClients :
          /\ (/\ last'.ev = "cmd" /\ last'.c = c /\ last'.how = "run"
              /\ last'.args \in BadArity \cup BadContent)
                 => AnsweredWithError(c)
          /\ (/\ conn[c].pc = "xread" /\ conn[c].cur = BadReadId)
                 => conn'[c].pc # "closed"]_vars

\* the same for the frames with a wrong number of arguments alone
C21_ArityRejected ==
    [][\A c \in RejectClients :
          (/\ last'.ev = "cmd" /\ last'.c = c /\ last'.how = "run"
           /\ last'.args \in BadArity)
              => AnsweredWithError(c)]_vars

\* -------------------------------------------------------------------- INCR
MaxStepsIncr == 4

SetMax(c) ==
    Frame(c, <<"SET", "k", I64Max>>, Order)

InitIncr ==
    InitState /\ now = 1 /\ budget = MaxStepsIncr

NextIncr ==
    \/ \E c \in KVClients : Spend /\ IncrK(c)
    \/ \E c \in KVClients : Spend /\ SetOne(c)
    \/ \E c \in KVClients : Spend /\ SetK(c)
    \/ \E c \in KVClients : Spend /\ SetMax(c)
    \/ \E c \in KVClients : Spend /\ GetK(c)

SpecIncr ==
    InitIncr /\ [][NextIncr]_vars

\* what one INCR k must do to the record it finds: rec is the record before
\* the step, fits tells whether its value is an integer whose successor is
\* a 64-bit integer
IncrStep(rec, fits) ==
    IF rec.type = "none"
    THEN /\ last'.reply = IntV(1)
         /\ db'["k"].type = "string" /\ db'["k"].value = "1"
    ELSE IF fits
    THEN /\ last'.reply = IntV(IntTable[rec.value] + 1)
         /\ db'["k"].type = "string"
         /\ db'["k"].value = ToString(IntTable[rec.value] + 1)
    ELSE /\ last'.fate = "reply"
         /\ last'.reply = NotIntegerError
         /\ db' = db

\* C22: INCR on a string holding the 64-bit integer n stores n+1 and replies
\* Integer n+1, in one step; on an absent key it stores and replies 1; on a
\* value that is no integer, or whose increment leaves the 64-bit range, it
\* replies `ERR value is not an integer or out of range` and leaves the
\* value unchanged.
C22_IncrRule ==
    [][(/\ last'.ev = "cmd" /\ last'.command = "INCR" /\ last'.how = "run"
        /\ db["k"].type \in {"none", "string"})
           => IncrStep(db["k"], db["k"].value \in DOMAIN IntTable)]_vars

\* the same for every value but i64::MAX
C22_BelowMax ==
    [][(/\ last'.ev = "cmd" /\ last'.command = "INCR" /\ last'.how = "run"
        /\ db["k"].type \in {"none", "string"}
        /\ db["k"].value # I64Max)
           => IncrStep(db["k"], db["k"].value \in DOMAIN IntTable)]_vars

\* -------------------------------------------------------------------- LPOP
MaxStepsPop == 4

LpopCount(c) ==
    \E n \in {<<>>, <<"0">>, <<"1">>, <<"2">>} :
        Frame(c, <<"LPOP", "q">> \o n, Order)

InitPop ==
    InitState /\ now = 1 /\ budget = MaxStepsPop

NextPop ==
    \/ \E c \in KVClients : Spend /\ Rpush(c)
    \/ \E c \in KVClients : Spend /\ LpopCount(c)
    \/ \E c \in KVClients : Spend /\ LlenQ(c)

SpecPop ==
    InitPop /\ [][NextPop]_vars

\* what one LPOP q must do to the list it finds
LpopStep(list, args) ==
    /\ last'.fate = "reply"
    /\ conn'[last'.c].pc = "idle"
    /\ IF Len(args) = 2
       THEN IF list = <<>>
            THEN last'.reply = NullString /\ db' = db
            ELSE /\ last'.reply = Bulk(Head(list))
                 /\ db'["q"].list = Tail(list)
       ELSE LET n == Min(from_str_radix(args[3]), Len(list))
            IN  /\ last'.reply = ArrayV(BulkEach(SubSeq(list, 1, n)))
                /\ db'["q"].list = SubSeq(list, n + 1, Len(list))

\* C23: LPOP k without a count removes the first element and replies with
\* it as a BulkString, or replies NilBulk when the list is empty or absent;
\* LPOP k count removes the first min(count, len) elements and replies with
\* them as an Array (possibly empty), for every count, 0 and 1 included; the
\* connection stays open.
C23_LpopReplies ==
    [][(last'.ev = "cmd" /\ last'.command = "LPOP" /\ last'.how = "run")
           => LpopStep(db["q"].list, last'.args)]_vars

\* the same where the code and the rule agree: a count other than 1, or no
\* count on a list that has an element
C23_CountNotOne ==
    [][(/\ last'.ev = "cmd" /\ last'.command = "LPOP" /\ last'.how = "run"
        /\ \/ Len(last'.args) = 3 /\ last'.args[3] # "1"
           \/ Len(last'.args) = 2 /\ db["q"].list # <<>>)
           => LpopStep(db["q"].list, last'.args)]_vars

\* ----------------------------------------------------- XADD auto-sequence
\* the ids whose sequence number XADD generates, with the ms part they
\* carry ("*" takes it from the clock)
AutoIds ==
    [s \in {"0-*", "1-*", "2-*", "*"} |->
        CASE s = "0-*" -> 0 [] s = "1-*" -> 1 [] s = "2-*" -> 2 [] s = "*" -> now]

\* the sequence number the rule gives ms on a stream with these entries
RuleSequence(entries, ms) ==
    IF entries # <<>> /\ entries[Len(entries)].id[1] = ms
    THEN entries[Len(entries)].id[2] + 1
    ELSE IF entries = <<>> /\ ms = 0 THEN 1
    ELSE 0

\* C24: XADD with the id `ms-*` or `*` (ms taken from the clock) stores the
\* sequence number last.seq + 1 when the stream's last entry has the same
\* ms, and 0 otherwise, except that ms = 0 on an empty or absent stream
\* gives 1; the reply is the final id as a BulkString. (An ms below the last
\* entry's is rejected by the rule of the explicit ids.)
C24_AutoSequence ==
    [][(/\ last'.ev = "cmd" /\ last'.command = "XADD" /\ last'.how = "run"
        /\ last'.args[3] \in DOMAIN AutoIds
        /\ splits_back(LastId("k"))
        /\ AutoIds[last'.args[3]] >= LastId("k")[1])
           => LET ms == AutoIds[last'.args[3]]
                  id == <<ms, RuleSequence(db["k"].entries, ms)>>
              IN  /\ last'.reply = Bulk(IdStr(id))
                  /\ db'["k"].type = "stream"
                  /\ db'["k"].entries =
                         Append(db["k"].entries,
                                StreamEntry_new(id, kv_of(<<>>, <<"f", "a">>)))]_vars

\* 1-* on a stream whose last entry is 1-1 was stored and answered as 1-2
C24_Witness ==
    /\ last.ev = "cmd"
    /\ last.command = "XADD"
    /\ last.args[3] = "1-*"
    /\ last.reply = Bulk("1-2")
    /\ Len(db["k"].entries) >= 2
    /\ db["k"].entries[Len(db["k"].entries)].id = <<1, 2>>
    /\ db["k"].entries[Len(db["k"].entries) - 1].id = <<1, 1>>

\* ------------------------------------------------ XREAD over two streams
MaxStepsRead == 3

XaddEither(c) ==
    \E k \in Keys, id \in {"1-0", "1-1"} :
        Frame(c, <<"XADD", k, id, "f", "a">>, Order)

XreadOne(c) ==
    \E id \in {"0-0", "1-0"} : Frame(c, <<"XREAD", "STREAMS", "k", id>>, Order)

XreadTwo(c) ==
    \E id \in {"0-0", "1-0"} :
        Frame(c, <<"XREAD", "STREAMS", "k", "q", id, "0-0">>, Order)

XreadBlockTwo(c) ==
    \E t \in {"0", "1"} :
        Frame(c, <<"XREAD", "BLOCK", t, "STREAMS", "k", "q", "0-0", "0-0">>, Order)

InitRead ==
    InitState /\ now = 1 /\ budget = MaxStepsRead

NextRead ==
    \/ \E c \in Writers : Spend /\ XaddEither(c)
    \/ \E c \in Readers : Spend /\ XreadOne(c)
    \/ \E c \in Readers : Spend /\ XreadTwo(c)
    \/ \E c \in Readers : Spend /\ XreadBlockTwo(c)
    \/ \E c \in Conns : XreadId(c)
    \/ \E c \in Conns : XreadScan(c)
    \/ \E c \in Conns : XreadSubscribe(c)
    \/ \E c \in Conns : XreadRecv(c)
    \/ \E c \in Conns : XreadDeadline(c)

SpecRead ==
    InitRead /\ [][NextRead]_vars

\* the entries of the stream at key k whose id is strictly above the bound,
\* each as its array
RECURSIVE AboveOf(_, _)
AboveOf(entries, bound) ==
    IF entries = <<>> THEN <<>>
    ELSE (IF IdLess(bound, Head(entries).id)
          THEN <<entry_array(Head(entries))>> ELSE <<>>)
         \o AboveOf(Tail(entries), bound)

\* the same for the i-th stream (from 0) of the XREAD frame args
AboveAt(args, i) ==
    AboveOf(db[stream_name_at(args, i)].entries, ReadIdTable[entry_id_at(args, i)])

\* the stream arrays a non-blocking XREAD has collected when the scan of its
\* current stream is over
Collected(c) ==
    Append(conn[c].xout,
           stream_array(stream_name_at(conn[c].cur, conn[c].xi),
                        AboveAt(conn[c].cur, conn[c].xi)))

\* connection c ends the scan of a stream of a non-blocking XREAD
ScansPlain(c) ==
    /\ conn[c].pc = "xread_scan"
    /\ ~is_blocked(conn[c].cur)
    /\ conn'[c].pc # conn[c].pc

\* C25: XREAD without BLOCK replies with an empty Array (zero elements)
\* whenever none of the requested streams has an entry above the supplied
\* id; otherwise every entry it returns has an id strictly above the id
\* supplied for its stream.
C25_EmptyArrayWhenNone ==
    [][\A c \in Readers :
          (ScansPlain(c) /\ conn'[c].pc = "idle")
              => IF \A i \in 1..Len(Collected(c)) :
                        Collected(c)[i]
                            = stream_array(stream_name_at(conn[c].cur, i - 1), <<>>)
                 THEN last'.reply = ArrayV(<<>>)
                 ELSE last'.reply = ArrayV(Collected(c))]_vars

\* what holds of every non-blocking XREAD: each stream contributes its name
\* and exactly its entries strictly above the id, in order
C25_EntriesAbove ==
    [][\A c \in Readers :
          ScansPlain(c)
              => IF conn'[c].pc = "idle"
                 THEN last'.reply = ArrayV(Collected(c))
                 ELSE /\ conn'[c].pc = "xread"
                      /\ conn'[c].xout = Collected(c)]_vars

\* C26: XREAD BLOCK waits only if every requested stream yields no entries:
\* when at least one requested stream already has an entry above its bound
\* the reply is produced without blocking on any other requested key.
C26_WaitsOnlyIfAllEmpty ==
    [][\A c \in Readers :
          (conn[c].pc = "xread_scan" /\ conn'[c].pc = "xread_sub")
              => \A i \in 0..(stream_count(conn[c].cur) - 1) :
                     AboveAt(conn[c].cur, i) = <<>>]_vars

\* what holds instead: the wait is decided stream by stream
C26_WaitsPerStream ==
    [][\A c \in Readers :
          (conn[c].pc = "xread_scan" /\ conn'[c].pc = "xread_sub")
              => AboveAt(conn[c].cur, conn[c].xi) = <<>>]_vars

\* ---------------------------------------------------- connection close
MaxStepsClose == 4

\* handle_client_async, the read_value branch of the select returns Err (a
\* read error, or the peer closed the socket): the error is printed and the
\* handler returns Ok(()); the handler and its mailbox receiver are dropped,
\* the registry is not touched
ReadError(c) ==
    /\ conn[c].pc = "idle"
    /\ conn' = [conn EXCEPT ![c].pc = "closed"]
    /\ peer' = peer \cup {c}
    /\ last' = [NoLast EXCEPT !.ev = "close", !.c = c]
    /\ UNCHANGED <<db, now, channels, subscriptions, mailbox, chan, schan,
                   budget, hist, got, parser>>

InitClose ==
    InitState /\ now = 1 /\ budget = MaxStepsClose

NextClose ==
    \/ \E c \in Subscribers : Spend /\ Subscribe(c)
    \/ \E c \in Publishers : Spend /\ Publish(c)
    \/ \E c \in Subscribers : ReadError(c)
    \/ \E c \in Conns : MailboxDeliver(c)

SpecClose ==
    InitClose /\ [][NextClose]_vars

\* C27: when a connection terminates (read error or peer close) its
\* subscriptions are removed from the registry before the handler exits:
\* afterwards its id is in no channels[ch] and it has no subscriptions left,
\* so that PUBLISH to those channels no longer counts it.
C27_ClosedLeavesRegistry ==
    \A c \in Subscribers :
        conn[c].pc = "closed"
            => /\ \A ch \in Chans : c \notin channels[ch]
               /\ subscriptions[c].set = {}

\* ------------------------------------------------------ the parser alone
MaxFrames == 2

\* a frame a client sends: the value it stands for and its bytes
Wire(v, bytes) ==
    [v |-> v, bytes |-> bytes]

\* the nil array, which RedisValue::encode cannot produce: it is sent as
\* the bytes *-1\r\n
NilArray ==
    [t |-> "NullArray", s |-> <<>>, n |-> 0, a |-> <<>>]

Wires ==
    {Wire(RedisValue_String(<<"a">>), as_simple_string(RedisValue_String(<<"a">>))),
     Wire(RedisValue_Null, encode(RedisValue_Null)),
     Wire(NilArray, <<"*", "-", "1", CR, LF>>)}
    \cup {Wire(v, encode(v)) :
            v \in {RedisValue_String(<<"a">>), RedisValue_String(<<>>),
                   RedisValue_String(<<"a", "b">>),
                   RedisValue_Int(2), RedisValue_Int(-1), RedisValue_Int(10),
                   RedisValue_Array(<<>>),
                   RedisValue_Array(<<RedisValue_String(<<"a">>)>>),
                   RedisValue_Array(<<RedisValue_String(<<"a">>),
                                      RedisValue_String(<<"b">>)>>),
                   RedisValue_Array(<<RedisValue_Int(2)>>),
                   RedisValue_Array(<<RedisValue_Array(
                                          <<RedisValue_String(<<"a">>)>>)>>)}}

\* the frames sent on one connection, in order
Sendings ==
    UNION {[1..n -> Wires] : n \in 1..MaxFrames}

\* the bytes of the frames, one after the other
BytesOf(sent) ==
    Flatten([i \in 1..Len(sent) |-> sent[i].bytes])

\* the ways the socket may hand the bytes to the reads: in one, two or three
\* chunks
Splits(bytes) ==
    {SelectSeq(<<SubSeq(bytes, 1, Min(i, j)),
                 SubSeq(bytes, Min(i, j) + 1, Max(i, j)),
                 SubSeq(bytes, Max(i, j) + 1, Len(bytes))>>,
               LAMBDA chunk : chunk # <<>>) :
        i \in 0..Len(bytes), j \in 0..Len(bytes)}

\* the results of up to k calls of read_value, up to the first that fails
RECURSIVE read_all(_, _, _)
read_all(p, overflow_checks, k) ==
    IF k = 0 THEN <<>>
    ELSE LET r == read_value(p, overflow_checks)
         IN  <<[fate |-> r.fate, v |-> r.v]>>
                 \o (IF r.fate = "ok" THEN read_all(r.p, overflow_checks, k - 1)
                     ELSE <<>>)

\* a parser on the frames sent, which arrive in the chunks of stream; whole
\* is what it yields when they arrive in one chunk
ParserOn(sent, stream, overflow_checks) ==
    [on |-> TRUE,
     rd |-> RedisParser_new(stream),
     overflow_checks |-> overflow_checks,
     sent |-> [i \in 1..Len(sent) |-> sent[i].v],
     bytes |-> BytesOf(sent),
     chunks |-> Len(stream),
     bulk |-> "$" \in {BytesOf(sent)[i] : i \in 1..Len(BytesOf(sent))},
     whole |-> read_all(RedisParser_new(<<BytesOf(sent)>>), overflow_checks,
                        Len(sent)),
     abandoned |-> 0,
     yielded |-> <<>>]

\* the loop of handle_client_async calls read_value once more
ReadValue ==
    /\ parser.on
    /\ Len(parser.yielded) < Len(parser.sent)
    /\ IF parser.yielded = <<>> THEN TRUE
       ELSE parser.yielded[Len(parser.yielded)].fate = "ok"
    /\ LET r == read_value(parser.rd, parser.overflow_checks)
       IN  parser' = [parser EXCEPT
                         !.rd = r.p,
                         !.yielded = Append(@, [fate |-> r.fate, v |-> r.v])]
    /\ UNCHANGED <<db, now, channels, subscriptions, mailbox, conn, chan, schan,
                   budget, last, hist, got, peer>>

InitParser ==
    /\ InitHandlers /\ now = 1 /\ budget = 0
    /\ \E sent \in Sendings, overflow_checks \in BOOLEAN :
           \E stream \in Splits(BytesOf(sent)) :
               parser = ParserOn(sent, stream, overflow_checks)

NextParser ==
    ReadValue

SpecParser ==
    InitParser /\ [][NextParser]_vars

\* what read_value has yielded so far is what it yields, call by call, when
\* the same bytes arrive in one chunk
SameAsWhole ==
    /\ Len(parser.yielded) <= Len(parser.whole)
    /\ \A i \in 1..Len(parser.yielded) : parser.yielded[i] = parser.whole[i]

\* C29: read_value yields the same sequence of Values however the incoming
\* bytes are split across the reads of the socket: partial frames are
\* buffered, and no byte of a following frame is dropped.
C29_SplitIndependent ==
    parser.on => SameAsWhole

\* the same for the frames that hold no bulk string
C29_WithoutBulk ==
    (parser.on /\ ~parser.bulk) => SameAsWhole

\* C30: a Value that is encoded and then decoded is yielded equal, for
\* SimpleString, BulkString, Integer, Array, NilBulk and NilArray; the bytes
\* $-1\r\n decode to NilBulk and *-1\r\n to NilArray.
C30_RoundTrip ==
    (/\ parser.on /\ parser.chunks = 1
     /\ Len(parser.sent) = 1 /\ Len(parser.yielded) = 1)
        => parser.yielded[1] = [fate |-> "ok", v |-> parser.sent[1]]

\* the same for the values other than the two nils
C30_NotNil ==
    (/\ parser.on /\ parser.chunks = 1
     /\ Len(parser.sent) = 1 /\ Len(parser.yielded) = 1
     /\ parser.sent[1].t \notin {"Null", "NullArray"})
        => parser.yielded[1] = [fate |-> "ok", v |-> parser.sent[1]]

\* ------------------------------------------------- the two select sources
MaxStepsLoop == 5

\* the connection that subscribes and blocks, and the one that publishes
\* and pushes
LoopClients ==
    {1}

LoopOthers ==
    {2}

PublishNews(c) ==
    Frame(c, <<"PUBLISH", "news", "a">>, Order)

InitLoop ==
    InitState /\ now = 1 /\ budget = MaxStepsLoop

NextLoop ==
    \/ \E c \in LoopClients : Spend /\ SubscribeNews(c)
    \/ \E c \in LoopClients : Spend /\ UnsubscribeNews(c)
    \/ \E c \in LoopClients : Spend /\ Blpop(c)
    \/ \E c \in LoopOthers : Spend /\ PublishNews(c)
    \/ \E c \in LoopOthers : Spend /\ RpushQ(c)
    \/ \E c \in Conns : BlpopRecv(c)
    \/ \E c \in Conns : BlpopTimeout(c)
    \/ \E c \in Conns : MailboxDeliver(c)

\* The clients may stop sending at any time. A handler goes on whenever it
\* can: select! takes a branch that is ready, recv returns what was sent,
\* the timer of a BLPOP with a timeout fires.
SpecLoop ==
    /\ InitLoop
    /\ [][NextLoop]_vars
    /\ \A c \in Conns : WF_vars(MailboxDeliver(c))
    /\ \A c \in Conns : WF_vars(BlpopRecv(c))
    /\ \A c \in Conns : WF_vars(BlpopTimeout(c))

\* C28: neither source of the handler's select starves the other: every
\* message enqueued on a live connection's mailbox is eventually written to
\* it, and the connection eventually reads its next inbound frame, also
\* while it is executing a blocking command.
C28_NeitherStarves ==
    /\ \A c \in Conns :
           (Alive(c) /\ mailbox[c] # <<>>) ~> (mailbox[c] = <<>> \/ ~Alive(c))
    /\ \A c \in Conns :
           (conn[c].pc = "blpop") ~> (conn[c].pc # "blpop")

\* what holds: the mailbox is drained unless the handler is inside a
\* blocking command, and a BLPOP with a timeout does end
C28_UnlessBlocked ==
    /\ \A c \in Conns :
           (Alive(c) /\ mailbox[c] # <<>>)
               ~> (mailbox[c] = <<>> \/ ~Alive(c) \/ conn[c].pc = "blpop")
    /\ \A c \in Conns :
           (conn[c].pc = "blpop" /\ conn[c].tmo # 0) ~> (conn[c].pc # "blpop")

\* ------------------------------------------------------------------ LRANGE
MaxStepsRange == 3

RangeClients ==
    {1, 2}

\* indices on both sides of every list length the pushes can build
RangeIndices ==
    {"-8", "-3", "-1", "0", "1", "2", "5"}

\* the key is absent until the first push
LrangeAny(c) ==
    \E start, stop \in RangeIndices :
        Frame(c, <<"LRANGE", "q", start, stop>>, Order)

InitRange ==
    InitState /\ now = 1 /\ budget = MaxStepsRange

NextRange ==
    \/ \E c \in RangeClients : Spend /\ Rpush(c)
    \/ \E c \in RangeClients : Spend /\ LrangeAny(c)

SpecRange ==
    InitRange /\ [][NextRange]_vars

\* the elements LRANGE is to return from a list for two indices: a negative
\* index i is n + i, not below 0; stop is not above n - 1
RangeRule(list, start, stop) ==
    LET n == Len(list)
        from == IF start < 0 THEN Max(n + start, 0) ELSE start
        upto == Min(IF stop < 0 THEN Max(n + stop, 0) ELSE stop, n - 1)
    IN  IF from >= n \/ from > upto THEN <<>>
        ELSE [j \in 1..(upto - from + 1) |-> list[from + j]]

\* C31: LRANGE k start stop replies the elements between the normalised
\* indices, in list order; a start at or below -n with stop -1 replies the
\* whole list, a start at or above n, or an absent key, an empty Array
C31_LrangeRule ==
    [][(last'.command = "LRANGE" /\ Len(last'.args) = 4) =>
        LET k == last'.args[2]
            list == IF db[k].type = "list" THEN db[k].list ELSE <<>>
            n == Len(list)
            start == IntTable[last'.args[3]]
            stop == IntTable[last'.args[4]]
        IN  /\ last'.fate = "reply"
            /\ last'.reply = ArrayV(BulkEach(RangeRule(list, start, stop)))
            /\ (start <= -n /\ stop = -1) =>
                   last'.reply = ArrayV(BulkEach(list))
            /\ (start >= n \/ db[k].type = "none") =>
                   last'.reply = ArrayV(<<>>)
            /\ db' = db]_vars

\* LRANGE q -8 -1 on a list of three elements has replied all three
C31_Witness ==
    /\ last.command = "LRANGE"
    /\ last.args = <<"LRANGE", "q", "-8", "-1">>
    /\ db["q"].type = "list"
    /\ Len(db["q"].list) = 3
    /\ last.reply = ArrayV(BulkEach(db["q"].list))

\* ---------------------------------------------- BLPOP: timeout and a push
\* C32: a BLPOP that replies the nil array on timeout has consumed no
\* value: no pushed value was handed to the timed-out waiter and lost.
C32_TimeoutConsumesNothing ==
    \A c \in Conns :
        (/\ last.ev = "cmd"
         /\ last.c = c
         /\ last.command = "BLPOP"
         /\ last.how = "timeout")
            => chan[conn[c].w].buf = <<>>

\* what holds: a BLPOP that recv() wakes leaves nothing behind in its
\* mailbox, and a push hands a waiter one value at most
C32_WakeTakesValue ==
    /\ \A c \in Conns :
           (/\ last.ev = "cmd"
            /\ last.c = c
            /\ last.command = "BLPOP"
            /\ last.how = "wake")
               => chan[conn[c].w].buf = <<>>
    /\ \A w \in 1..Len(chan) : Len(chan[w].buf) <= 1

\* --------------------------------------------- XREAD BLOCK: the wake-up
MaxStepsWake == 3

XaddWake(c) ==
    \E id \in {"1-0", "1-1"} : Frame(c, <<"XADD", "k", id, "f", "a">>, Order)

XreadBlockOne(c) ==
    \E t \in {"0", "1"} :
        Frame(c, <<"XREAD", "BLOCK", t, "STREAMS", "k", "0-0">>, Order)

InitWake ==
    InitState /\ now = 1 /\ budget = MaxStepsWake

NextWake ==
    \/ \E c \in Writers : Spend /\ XaddWake(c)
    \/ \E c \in Readers : Spend /\ XreadBlockOne(c)
    \/ \E c \in Conns : XreadId(c)
    \/ \E c \in Conns : XreadScan(c)
    \/ \E c \in Conns : XreadSubscribe(c)
    \/ \E c \in Conns : XreadRecv(c)
    \/ \E c \in Conns : XreadDeadline(c)

\* The clients may stop sending at any time. A handler inside XREAD goes on
\* whenever it can: the locks are granted, recv returns an entry that was
\* sent, the deadline of a BLOCK with a timeout is reached.
SpecWake ==
    /\ InitWake
    /\ [][NextWake]_vars
    /\ \A c \in Readers : WF_vars(XreadId(c))
    /\ \A c \in Readers : WF_vars(XreadScan(c))
    /\ \A c \in Readers : WF_vars(XreadSubscribe(c))
    /\ \A c \in Readers : WF_vars(XreadRecv(c))
    /\ \A c \in Readers : WF_vars(XreadDeadline(c))

\* connection c is executing an XREAD whose bound for the stream is known
XreadRunning(c) ==
    conn[c].pc \in {"xread_scan", "xread_sub", "xread_wait"}

\* the stream at k holds an entry above the bound of c's XREAD
HoldsAbove(c, k) ==
    /\ db[k].type = "stream"
    /\ \E i \in 1..Len(db[k].entries) : id_above(db[k].entries[i].id, conn[c].xid)

\* the XREAD of c has just replied with entries
RepliedEntries(c) ==
    /\ last.ev = "cmd"
    /\ last.c = c
    /\ last.command = "XREAD"
    /\ last.fate = "reply"
    /\ last.reply # NullArray

\* C33: a blocking XREAD on k with bound b misses no wake-up: once an entry
\* above b is in the stream while the XREAD is executing, also when its
\* XADD commits between the scan and the registration of the waiter, the
\* XREAD eventually replies with an entry; it neither stays blocked nor
\* times out with the nil array.
C33_NoMissedWakeup ==
    \A c \in Readers :
        (XreadRunning(c) /\ HoldsAbove(c, "k")) ~> RepliedEntries(c)

\* the same for XREAD BLOCK 0 alone: no deadline is involved
C33_BlockZeroWakes ==
    \A c \in Readers :
        (XreadRunning(c) /\ conn[c].cur[3] = "0" /\ HoldsAbove(c, "k"))
            ~> RepliedEntries(c)

\* what holds: an entry above the bound that reached the waiter's mailbox
\* ends an XREAD BLOCK 0 with a reply, and so does an entry the scan meets
C33_WokenOnceRegistered ==
    /\ \A c \in Readers :
           (/\ conn[c].pc = "xread_wait"
            /\ conn[c].tmo = 0
            /\ \E i \in 1..Len(schan[conn[c].w].buf) :
                   id_above(schan[conn[c].w].buf[i].id, conn[c].xid))
               ~> RepliedEntries(c)
    /\ \A c \in Readers :
           (conn[c].pc = "xread_scan" /\ HoldsAbove(c, "k")) ~> RepliedEntries(c)

\* ------------------------------------------ a client gone while blocked
MaxStepsGone == 4

GoneClients ==
    {2, 3}

\* The client closes its socket while its handler is inside BLPOP or XREAD
\* BLOCK: the handler awaits only the waiter's channel (and the timer), the
\* socket is not polled, and no other task watches it, so nothing of the
\* handler or of the store changes.
PeerClose(c) ==
    /\ conn[c].pc \in {"blpop", "xread_wait"}
    /\ c \notin peer
    /\ peer' = peer \cup {c}
    /\ last' = [NoLast EXCEPT !.ev = "peer_close", !.c = c]
    /\ UNCHANGED <<db, now, channels, subscriptions, mailbox, conn, chan, schan,
                   budget, hist, got, parser>>

InitGone ==
    InitState /\ now = 1 /\ budget = MaxStepsGone

NextGone ==
    \/ \E c \in GoneClients : c \notin peer /\ Spend /\ Blpop(c)
    \/ \E c \in GoneClients : c \notin peer /\ Spend /\ XreadBlockOne(c)
    \/ \E c \in Writers : Spend /\ RpushQ(c)
    \/ \E c \in Writers : Spend /\ XaddWake(c)
    \/ \E c \in GoneClients : PeerClose(c)
    \/ \E c \in GoneClients : ReadError(c)
    \/ \E c \in Conns : BlpopRecv(c)
    \/ \E c \in Conns : BlpopTimeout(c)
    \/ \E c \in Conns : XreadId(c)
    \/ \E c \in Conns : XreadScan(c)
    \/ \E c \in Conns : XreadSubscribe(c)
    \/ \E c \in Conns : XreadRecv(c)
    \/ \E c \in Conns : XreadDeadline(c)

SpecGone ==
    InitGone /\ [][NextGone]_vars

\* C34: once a client has disconnected while its handler was blocked in
\* BLPOP or XREAD BLOCK, its waiter's mailbox is closed to producers: no
\* later push or XADD hands a value to the waiter of the dead connection.
C34_DeadWaiterSkipped ==
    [][/\ \A w \in 1..Len(chan) :
              chan[w].owner \in peer => Len(chan'[w].buf) <= Len(chan[w].buf)
       /\ \A w \in 1..Len(schan) :
              schan[w].owner \in peer => Len(schan'[w].buf) <= Len(schan[w].buf)]_vars

\* what holds: a waiter whose receiver has been dropped is handed nothing
C34_DroppedReceiverSkipped ==
    [][/\ \A w \in 1..Len(chan) :
              ~chan[w].rx => chan'[w].buf = chan[w].buf
       /\ \A w \in 1..Len(schan) :
              ~schan[w].rx => schan'[w].buf = schan[w].buf]_vars

\* ------------------------------------------- StreamRecord::push, waiters
\* an XADD has appended an entry to the stream at k in this step
Appended(k) ==
    /\ db[k].type = "stream"
    /\ db'[k].type = "stream"
    /\ Len(db'[k].entries) = Len(db[k].entries) + 1

\* the waiters of the stream at k whose receiver has been dropped
ClosedWaiters(k) ==
    {i \in 1..Len(db[k].waiters) : ~schan[db[k].waiters[i]].rx}

\* C35: after an XADD appended an entry, every stream waiter whose mailbox
\* was live has been sent the entry and is still in the waiter queue, in
\* the original relative order, and every waiter whose mailbox was closed
\* has been removed, wherever and however many the closed waiters are.
C35_ClosedWaitersRemoved ==
    [][\A k \in Keys :
          Appended(k) =>
              LET live == LiveOf(db[k].waiters, schan)
                  entry == db'[k].entries[Len(db'[k].entries)]
              IN  /\ db'[k].waiters = live
                  /\ \A i \in 1..Len(live) :
                         schan'[live[i]].buf = Append(schan[live[i]].buf, entry)]_vars

\* what holds: every live waiter is sent the entry, and the queue is the
\* live waiters in order when at most one waiter was closed
C35_OneClosedWaiter ==
    [][\A k \in Keys :
          Appended(k) =>
              LET live == LiveOf(db[k].waiters, schan)
                  entry == db'[k].entries[Len(db'[k].entries)]
              IN  /\ Cardinality(ClosedWaiters(k)) <= 1 => db'[k].waiters = live
                  /\ \A i \in 1..Len(live) :
                         schan'[live[i]].buf = Append(schan[live[i]].buf, entry)]_vars

\* ------------------------------------------ PUBLISH to a closed mailbox
\* a PUBLISH of three arguments has been executed in this step
Published ==
    /\ last'.ev = "cmd"
    /\ last'.command = "PUBLISH"
    /\ last'.how \in {"run", "exec"}
    /\ Len(last'.args) = 3

\* the publisher is answered the Integer and reads on; every subscriber
\* whose handler still runs is sent the message
PublishedToLive ==
    /\ last'.fate = "reply"
    /\ last'.reply = IntV(Cardinality(channels[last'.args[2]]))
    /\ conn'[last'.c].pc = "idle"
    /\ \A c \in channels[last'.args[2]] :
           Alive(c) => mailbox'[c] = Append(mailbox[c],
                                            MessageV(last'.args[2], last'.args[3]))

\* C36: a PUBLISH to a channel one of whose subscribers has exited (its
\* mailbox is closed) ignores the failed send: the publisher still receives
\* its Integer reply, the other subscribers still receive the message, and
\* the publisher's connection stays open.
C36_FailedSendIgnored ==
    [][(Published /\ \E c \in channels[last'.args[2]] : ~Alive(c))
          => PublishedToLive]_vars

\* what holds: the same when every subscriber's handler still runs
C36_AllSubscribersLive ==
    [][(Published /\ \A c \in channels[last'.args[2]] : Alive(c))
          => PublishedToLive]_vars

\* ------------------------------------------------- locks and blocked clients
MaxStepsLock == 3

InitLock ==
    InitState /\ now = 1 /\ budget = MaxStepsLock

NextLock ==
    \/ \E c \in Readers : Spend /\ Blpop(c)
    \/ \E c \in Readers : Spend /\ XreadBlockOne(c)
    \/ \E c \in Conns : Spend /\ RpushQ(c)
    \/ \E c \in Conns : Spend /\ XaddWake(c)
    \/ \E c \in Conns : Spend /\ SubscribeNews(c)
    \/ \E c \in Conns : BlpopRecv(c)
    \/ \E c \in Conns : BlpopTimeout(c)
    \/ \E c \in Conns : XreadId(c)
    \/ \E c \in Conns : XreadScan(c)
    \/ \E c \in Conns : XreadSubscribe(c)
    \/ \E c \in Conns : XreadRecv(c)
    \/ \E c \in Conns : XreadDeadline(c)

SpecLock ==
    InitLock /\ [][NextLock]_vars

\* the handler of c awaits a waiter's mailbox or a timeout, or the socket
Waiting(c) ==
    conn[c].pc \in {"idle", "blpop", "xread_wait"}

AnyBytes ==
    {<<"?", "a", CR, LF>>,
     <<"$", "x", CR, LF>>,
     <<"*", "x", CR, LF>>,
     <<":", "x", CR, LF>>,
     <<":", CR, LF>>,
     <<"+", "a", CR, "b", CR, LF>>,
     <<":", "2", CR, "2", CR, LF>>,
     <<"*", "1", CR, "+", "a", CR, LF>>,
     <<"+", "a", CR>>,
     <<"+", "a">>,
     <<"*", "2", CR, LF, "+", "a", CR, LF>>,
     <<"*", "1", CR, LF, ":", "x", CR, LF>>,
     <<"+", "a", CR, LF>>,
     <<"*", "1", CR, LF, ":", "2", CR, LF>>}

InitAnyBytes ==
    /\ InitHandlers /\ now = 1 /\ budget = 0
    /\ \E bytes \in AnyBytes, overflow_checks \in BOOLEAN :
           \E stream \in Splits(bytes) :
               parser = ParserOn(<<Wire(RedisValue_Null, bytes)>>, stream,
                                 overflow_checks)

SpecAnyBytes ==
    InitAnyBytes /\ [][NextParser]_vars

\* a \r of the bytes that is followed by a byte other than \n
LoneCr(bytes) ==
    \E i \in 1..(Len(bytes) - 1) : bytes[i] = CR /\ bytes[i + 1] # LF

\* every call of read_value so far has returned a Value or an Err
AllReturned ==
    \A i \in 1..Len(parser.yielded) : parser.yielded[i].fate \in {"ok", "err"}

\* C38: for every inbound byte sequence read_value terminates once the
\* bytes have arrived or the peer has closed: it yields a Value or fails
\* (disconnect, unrecognized leading byte, non-digit in a numeric field, a
\* lone \r not followed by \n); it never loops without consuming input and
\* never panics.
C38_AlwaysReturns ==
    parser.on => AllReturned

\* what holds: the same for the bytes in which no \r is followed by a byte
\* other than \n
C38_WithoutLoneCr ==
    (parser.on /\ ~LoneCr(parser.bytes)) => AllReturned

\* ------------------------------------- a mailbox message during a read
MaxAbandoned == 1

\* commands as arrays of simple strings and integers, and two values that
\* are no array
PlainWires ==
    {Wire(RedisValue_Array(<<RedisValue_String(<<"a">>)>>),
          <<"*", "1", CR, LF, "+", "a", CR, LF>>),
     Wire(RedisValue_Array(<<RedisValue_String(<<"a">>), RedisValue_String(<<"b">>)>>),
          <<"*", "2", CR, LF, "+", "a", CR, LF, "+", "b", CR, LF>>),
     Wire(RedisValue_Array(<<RedisValue_String(<<"a">>), RedisValue_Int(2)>>),
          <<"*", "2", CR, LF, "+", "a", CR, LF, ":", "2", CR, LF>>),
     Wire(RedisValue_String(<<"a", "b">>), <<"+", "a", "b", CR, LF>>),
     Wire(RedisValue_Int(10), <<":", "1", "0", CR, LF>>)}

\* handle_client_async, the select while read_value is suspended in a read
\* of the socket: the mailbox branch completes, the message is written and
\* the future of read_value is dropped with its locals; the parser keeps its
\* buffer and position, and the loop calls read_value anew
MailboxWhileReading ==
    /\ parser.on
    /\ parser.abandoned < MaxAbandoned
    /\ Len(parser.yielded) < Len(parser.sent)
    /\ IF parser.yielded = <<>> THEN TRUE
       ELSE parser.yielded[Len(parser.yielded)].fate = "ok"
    /\ \E j \in 0..(Len(parser.rd.stream) - 1) :
           LET arrived == SubSeq(parser.rd.stream, 1, j)
               later == SubSeq(parser.rd.stream, j + 1, Len(parser.rd.stream))
               r == read_value([parser.rd EXCEPT !.stream = arrived,
                                                 !.closed = FALSE],
                               parser.overflow_checks)
           IN  /\ r.fate = "pending"
               /\ parser' = [parser EXCEPT
                                !.rd = [r.p EXCEPT !.stream = later,
                                                   !.closed = TRUE],
                                !.abandoned = @ + 1]
    /\ UNCHANGED <<db, now, channels, subscriptions, mailbox, conn, chan, schan,
                   budget, last, hist, got, peer>>

InitSelect ==
    /\ InitHandlers /\ now = 1 /\ budget = 0
    /\ \E sent \in UNION {[1..n -> PlainWires] : n \in 1..MaxFrames},
          overflow_checks \in BOOLEAN :
           \E stream \in Splits(BytesOf(sent)) :
               parser = ParserOn(sent, stream, overflow_checks)

NextSelect ==
    \/ ReadValue
    \/ MailboxWhileReading

SpecSelect ==
    InitSelect /\ [][NextSelect]_vars

\* C39: a mailbox message that becomes ready while an inbound frame has
\* been received in part does not corrupt the frame: after the message is
\* written, read_value still yields the frames the client sent, each as the
\* single Value it is.
C39_FrameSurvives ==
    (parser.on /\ parser.abandoned > 0) => SameAsWhole

\* what holds: a read that is never abandoned yields the frames sent, and
\* so does an abandoned read of frames that are no arrays
C39_ValuesSurvive ==
    /\ (parser.on /\ parser.abandoned = 0) => SameAsWhole
    /\ (/\ parser.on
        /\ \A i \in 1..Len(parser.sent) : parser.sent[i].t # "Array")
           => SameAsWhole

\* ----------------------------------- messages and the subscription's span
\* msg is a ["message", ch, m] for a channel in chs
MessageFor(msg, chs) ==
    \E ch \in chs, m \in Vals : msg = MessageV(ch, m)

\* C40: a connection is sent a ["message", ch, m] only between its
\* subscribe confirmation for ch and its unsubscribe confirmation for ch:
\* whenever a message is written to it, it is subscribed to the message's
\* channel, under any interleaving with the PUBLISH calls of others.
C40_WrittenWhileSubscribed ==
    [][\A c \in Conns :
          got'[c] # got[c] =>
              MessageFor(got'[c][Len(got'[c])], subscriptions[c].set)]_vars

\* what holds: a message is put on the mailbox of a connection only while
\* the connection is subscribed to its channel, so none is written before
\* the subscribe confirmation
C40_EnqueuedWhileSubscribed ==
    [][\A c \in Conns :
          Len(mailbox'[c]) > Len(mailbox[c]) =>
              MessageFor(mailbox'[c][Len(mailbox'[c])], subscriptions[c].set)]_vars

====
